---- MODULE Spec2Model ----
(***************************************************************************)
(* Trigger / behaviour-analysis core of wm-agent: the data manager (player *)
(* registry, action log, persisted trigger events, mail history), the      *)
(* behaviour analyzer with its caches, and the trigger engine with its     *)
(* polling thread, cooldown history and event handlers.                    *)
(*                                                                         *)
(* Time is an integer number of minutes.  Player ids and condition names   *)
(* are sequences of characters, so that the string keys the code builds    *)
(* (f"{player_id}_{condition.name}") are modelled as concatenations.       *)
(***************************************************************************)
EXTENDS Integers, Sequences, FiniteSets, TLC

VARIABLES
    now,               \* datetime.now(), in minutes
    players,           \* DataManager.players
    action_history,    \* DataManager.action_history
    trigger_events,    \* DataManager.trigger_events
    mail_history,      \* DataManager.mail_history
    mails_sent,        \* SmartGameAgent.mails_sent
    behavior_cache,    \* BehaviorAnalyzer.behavior_cache
    recent_actions,    \* BehaviorAnalyzer.recent_actions
    risk_scores,       \* BehaviorAnalyzer.risk_scores
    trigger_conditions,\* TriggerEngine.trigger_conditions (insertion order)
    event_handlers,    \* TriggerEngine.event_handlers
    is_running,        \* TriggerEngine.is_running
    monitor_thread,    \* TriggerEngine.monitor_thread (0 = None)
    threads,           \* state of every Thread object created so far
    lock_owner,        \* TriggerEngine._lock (0 = free)
    cycle_todo,        \* active players the cycle in progress has not checked yet
    trigger_history,   \* TriggerEngine.trigger_history
    triggers_fired,    \* TriggerEngine.stats["triggers_fired"]
    stop_pc,           \* position of a stop_monitoring call in progress
    handler_log,       \* observation: handler invocations, in order
    fire_log,          \* observation: scheduled fires as <<key, time>>
    cycle_log,         \* observation: what the cycle in progress did
    call_log,          \* observation: the last force_check_player call and its result
    analysis_log,      \* observation: the last analyze_player_behavior call and its result
    agent,             \* SmartGameAgent: llm_client, agent_executor and its counters
    agent_log,         \* observation: the last process_trigger_event call and its result
    stop_seen,         \* observation: stop_monitoring has stopped the engine at least once
    ticks              \* observation: number of clock advances so far

vars == <<now, players, action_history, trigger_events, mail_history, mails_sent,
          behavior_cache, recent_actions, risk_scores, trigger_conditions,
          event_handlers, is_running, monitor_thread, threads, lock_owner,
          cycle_todo, trigger_history, triggers_fired, stop_pc, handler_log,
          fire_log, cycle_log, call_log, analysis_log, agent, agent_log, stop_seen,
          ticks>>

storeVars    == <<players, action_history, trigger_events, mail_history, mails_sent>>
analyzerVars == <<behavior_cache, recent_actions, risk_scores>>
threadVars   == <<is_running, monitor_thread, threads, lock_owner, cycle_todo, stop_pc>>
engineVars   == <<trigger_conditions, event_handlers, trigger_history, triggers_fired>>
obsVars      == <<handler_log, fire_log, cycle_log>>
agentVars    == <<agent, agent_log>>
callVars     == <<call_log, analysis_log, agentVars>>

(***************************************************************************)
(* Bounds of the model                                                     *)
(***************************************************************************)
MaxActions  == 3    \* actions appended to the action log
MaxTicks    == 2    \* clock advances
MaxThreads  == 1    \* Thread objects created by start_monitoring
MaxMails    == 1    \* mails sent
MaxFailures == 4    \* consecutive_failures reached by direct increments

None == "none"
NoName == <<>>   \* no condition name

(***************************************************************************)
(* Small helpers over sequences                                            *)
(***************************************************************************)
Min2(a, b) == IF a <= b THEN a ELSE b
Max2(a, b) == IF a >= b THEN a ELSE b

Take(s, n) == SubSeq(s, 1, Min2(n, Len(s)))

RECURSIVE SumSeq(_)
SumSeq(s) == IF s = <<>> THEN 0 ELSE Head(s) + SumSeq(Tail(s))

Count(s, P(_)) == Len(SelectSeq(s, P))

SeqToSet(s) == {s[i] : i \in 1..Len(s)}

\* the element of a singleton; Only({e(x) : x \in {v}}) is e with x bound to the
\* value of v, computed once
Only(S) == CHOOSE x \in S : TRUE

(***************************************************************************)
(* models/action.py                                                        *)
(***************************************************************************)
FailureTypes == {"battle_lose", "rage_quit", "complain", "attack_city", "idle_timeout"}
SuccessTypes == {"battle_win", "level_up", "complete_quest", "purchase"}
SocialTypes  == {"chat_world", "chat_guild", "chat_private", "join_guild"}
HelpTypes    == {"open_guide", "chat_world", "complain"}

is_failure(a) == a.action_type \in FailureTypes \/ a.result = "failure"
is_success(a) == a.action_type \in SuccessTypes \/ a.result = "success"
is_social_activity(a) == a.action_type \in SocialTypes
is_help_seeking(a) == a.action_type \in HelpTypes

get_emotional_impact(a) ==
    CASE a.action_type = "battle_win"     -> 3
      [] a.action_type = "level_up"       -> 4
      [] a.action_type = "complete_quest" -> 2
      [] a.action_type = "purchase"       -> 1
      [] a.action_type = "join_guild"     -> 2
      [] a.action_type = "battle_lose"    -> -2
      [] a.action_type = "rage_quit"      -> -5
      [] a.action_type = "complain"       -> -3
      [] a.action_type = "idle_timeout"   -> -1
      [] a.action_type = "leave_guild"    -> -2
      [] OTHER                            -> 0

ActionTypes ==
    {"attack_city", "attack_player", "defend", "battle_win", "battle_lose", "skill_use",
     "chat_world", "chat_guild", "chat_private", "join_guild", "leave_guild",
     "login", "logout", "open_shop", "open_inventory", "open_guide", "game_exit",
     "purchase", "sell", "trade", "card_draw",
     "level_up", "complete_quest", "upgrade_equipment",
     "rage_quit", "complain", "idle_timeout"}

PlayerAction(p, t, r, ts) ==
    [player_id |-> p, action_type |-> t, result |-> r, timestamp |-> ts]

(***************************************************************************)
(* models/player.py                                                        *)
(***************************************************************************)
Player(vip, spent, cf, fl) ==
    [vip_level |-> vip, total_spent |-> spent, consecutive_failures |-> cf,
     frustration_level |-> fl, current_status |-> "active"]

update_status(pl, new_status) == [pl EXCEPT !.current_status = new_status]

increment_failures_unclamped(pl) ==
    LET cf == pl.consecutive_failures + 1
        p1 == [pl EXCEPT !.consecutive_failures = cf]
        p2 == IF cf >= 2 THEN [p1 EXCEPT !.frustration_level = pl.frustration_level + 2]
              ELSE p1
    IN  IF cf >= 3 THEN update_status(p2, "frustrated") ELSE p2

increment_failures(pl) ==
    LET cf == pl.consecutive_failures + 1
        p1 == [pl EXCEPT !.consecutive_failures = cf]
        p2 == IF cf >= 2
              THEN [p1 EXCEPT !.frustration_level = Min2(10, pl.frustration_level + 2)]
              ELSE p1
    IN  IF cf >= 3 THEN update_status(p2, "frustrated") ELSE p2

reset_failures(pl) ==
    LET p1 == [pl EXCEPT !.consecutive_failures = 0]
    IN  IF pl.frustration_level > 0
        THEN [p1 EXCEPT !.frustration_level = Max2(0, pl.frustration_level - 1)]
        ELSE p1

is_high_value(pl) == pl.vip_level >= 3 \/ pl.total_spent >= 100

(***************************************************************************)
(* data/data_manager.py                                                    *)
(***************************************************************************)
RECURSIVE InsertDesc(_, _)
InsertDesc(s, a) ==
    IF s = <<>> THEN <<a>>
    ELSE IF Head(s).timestamp >= a.timestamp
         THEN <<Head(s)>> \o InsertDesc(Tail(s), a)
         ELSE <<a>> \o s

RECURSIVE SortDescAcc(_, _)
SortDescAcc(acc, s) ==
    IF s = <<>> THEN acc
    ELSE Only({SortDescAcc(acc1, Tail(s)) : acc1 \in {InsertDesc(acc, Head(s))}})

\* sorted(actions, key=timestamp, reverse=True): stable, newest first
SortNewestFirst(s) == Only({SortDescAcc(<<>>, v) : v \in {s}})

RECURSIVE InsertAsc(_, _)
InsertAsc(s, a) ==
    IF s = <<>> THEN <<a>>
    ELSE IF Head(s).timestamp <= a.timestamp
         THEN <<Head(s)>> \o InsertAsc(Tail(s), a)
         ELSE <<a>> \o s

RECURSIVE SortAscAcc(_, _)
SortAscAcc(acc, s) ==
    IF s = <<>> THEN acc
    ELSE Only({SortAscAcc(acc1, Tail(s)) : acc1 \in {InsertAsc(acc, Head(s))}})

\* sorted(actions, key=timestamp): stable, oldest first
SortOldestFirst(s) == Only({SortAscAcc(<<>>, v) : v \in {s}})

get_player(reg, pid) == IF pid \in DOMAIN reg THEN reg[pid] ELSE None

\* time_window_minutes = 0 stands for None (the code tests its truthiness)
get_player_actions(hist, clock, pid, limit, time_window_minutes) ==
    LET mine   == SelectSeq(hist, LAMBDA a : a.player_id = pid)
        cutoff == clock - time_window_minutes
        inwin  == IF time_window_minutes # 0
                  THEN SelectSeq(mine, LAMBDA a : a.timestamp >= cutoff)
                  ELSE mine
    IN  Take(SortNewestFirst(inwin), limit)

\* the player update of add_action
player_after_action(pl, a) ==
    IF is_failure(a) THEN increment_failures(pl)
    ELSE IF is_success(a) THEN reset_failures(pl)
    ELSE pl

(***************************************************************************)
(* triggers/behavior_analyzer.py: the analysis of one action window        *)
(***************************************************************************)
CacheTtlMinutes   == 10
RiskCacheSeconds  == 300
RecentActionsMax  == 20
AnalysisLimit     == 100

RECURSIVE CumulativeScores(_, _)
CumulativeScores(s, acc) ==
    IF s = <<>> THEN <<>>
    ELSE LET c == acc + get_emotional_impact(Head(s))
         IN  <<c>> \o CumulativeScores(Tail(s), c)

LastN(s, n) == IF Len(s) <= n THEN s ELSE SubSeq(s, Len(s) - n + 1, Len(s))

RECURSIVE TrendSum(_)
TrendSum(pts) ==
    IF Len(pts) < 2 THEN 0
    ELSE (IF pts[2] > pts[1] THEN 1 ELSE IF pts[2] < pts[1] THEN -1 ELSE 0)
         + TrendSum(Tail(pts))

analyze_emotional_trend(points) ==
    IF Len(points) < 3 THEN "insufficient_data"
    ELSE LET t == TrendSum(LastN(points, 5))
         IN  IF t >= 2 THEN "improving"
             ELSE IF t <= -2 THEN "declining"
             ELSE "stable"

determine_emotional_state(cumulative_score, trajectory) ==
    IF cumulative_score <= -10 THEN "frustrated"
    ELSE IF cumulative_score <= -5 THEN "concerned"
    ELSE IF cumulative_score >= 10 THEN "positive"
    ELSE IF cumulative_score >= 5 THEN "satisfied"
    ELSE IF trajectory = "declining" THEN "declining"
    ELSE IF trajectory = "improving" THEN "improving"
    ELSE "stable"

analyze_emotional_trajectory_stateful(actions) ==
    IF actions = <<>>
    THEN [current_state |-> "unknown", trajectory |-> "stable", current_score |-> 0]
    ELSE Only({ LET score == points[Len(points)] - Cardinality(DOMAIN behavior_cache)
                    traj  == analyze_emotional_trend(points)
                IN  [current_state |-> determine_emotional_state(score, traj),
                     trajectory    |-> traj,
                     current_score |-> score]
                : points \in {CumulativeScores(SortOldestFirst(actions), 0)} })

analyze_emotional_trajectory(actions) ==
    IF actions = <<>>
    THEN [current_state |-> "unknown", trajectory |-> "stable", current_score |-> 0]
    ELSE Only({ LET score == points[Len(points)]
                    traj  == analyze_emotional_trend(points)
                IN  [current_state |-> determine_emotional_state(score, traj),
                     trajectory    |-> traj,
                     current_score |-> score]
                : points \in {CumulativeScores(SortOldestFirst(actions), 0)} })

\* the buckets with the lower bounds excluded
RiskLevelOf_exclusive(score) ==
    IF score > 70 THEN "critical"
    ELSE IF score > 50 THEN "high"
    ELSE IF score > 30 THEN "medium"
    ELSE "low"

RiskLevelOf(score) ==
    IF score >= 70 THEN "critical"
    ELSE IF score >= 50 THEN "high"
    ELSE IF score >= 30 THEN "medium"
    ELSE "low"

\* every addend is a multiple of 5, so score * 1.2 is the integer score * 12 / 10
assess_risk_level(pl, actions, emotional_analysis, clock) ==
    LET failures_risk == IF pl.consecutive_failures >= 3 THEN 30
                         ELSE IF pl.consecutive_failures >= 2 THEN 15 ELSE 0
        frustration_risk == pl.frustration_level * 5
        state_risk == IF emotional_analysis.current_state = "frustrated" THEN 20
                      ELSE IF emotional_analysis.current_state = "declining" THEN 15
                      ELSE 0
        trajectory_risk == IF emotional_analysis.trajectory = "declining" THEN 15 ELSE 0
        recent == SelectSeq(actions, LAMBDA a : a.timestamp >= clock - 120)
        activity_risk == IF Len(recent) = 0 /\ Len(actions) > 5 THEN 25
                         ELSE IF Len(recent) < 3 /\ Len(actions) > 10 THEN 10
                         ELSE 0
        social == SelectSeq(actions, is_social_activity)
        social_risk == IF Len(social) = 0 /\ Len(actions) > 10 THEN 10 ELSE 0
        additive == failures_risk + frustration_risk + state_risk + trajectory_risk
                    + activity_risk + social_risk
        weighted == IF is_high_value(pl) THEN (additive * 12) \div 10 ELSE additive
        score == Min2(100, Max2(0, weighted))
    IN  [risk_score |-> score, risk_level |-> RiskLevelOf(score)]

RECURSIVE QuitIndicators(_)
QuitIndicators(s) ==
    IF s = <<>> THEN 0
    ELSE (IF Head(s).action_type = "rage_quit" THEN 2
          ELSE IF Head(s).action_type = "complain" THEN 1 ELSE 0)
         + QuitIndicators(Tail(s))

\* the candidates matched, in the order the code appends them, with 10 * confidence
MatchedPatterns(actions, emo) ==
    LET total == Len(actions)
        fails == Count(actions, is_failure)
        succs == Count(actions, is_success)
        socs  == Count(actions, is_social_activity)
        helps == Count(actions, is_help_seeking)
        c1 == IF 10 * fails > 6 * total /\ emo.current_state \in {"frustrated", "declining"}
              THEN << <<"high_frustration", 8>> >> ELSE <<>>
        c2 == IF helps > 0 /\ 10 * fails > 4 * total
              THEN << <<"seeking_help", 7>> >> ELSE <<>>
        c3 == IF 100 * socs < 5 * total /\ total > 10
              THEN << <<"social_isolation", 6>> >> ELSE <<>>
        c4 == IF emo.trajectory = "improving" /\ 10 * succs > 5 * total
              THEN << <<"recovery", 7>> >> ELSE <<>>
        c5 == IF 10 * fails < 3 * total /\ emo.current_state = "stable"
              THEN << <<"stable", 6>> >> ELSE <<>>
        c6 == IF QuitIndicators(actions) >= 3 /\ emo.trajectory = "declining"
              THEN << <<"quit_risk", 9>> >> ELSE <<>>
    IN  c1 \o c2 \o c3 \o c4 \o c5 \o c6

RECURSIVE FirstMax(_, _)
FirstMax(best, s) ==
    IF s = <<>> THEN best
    ELSE FirstMax(IF Head(s)[2] > best[2] THEN Head(s) ELSE best, Tail(s))

\* the maximum that keeps the last of the candidates of equal confidence
RECURSIVE LastMax(_, _)
LastMax(best, s) ==
    IF s = <<>> THEN best
    ELSE LastMax(IF Head(s)[2] >= best[2] THEN Head(s) ELSE best, Tail(s))

primary_candidate_last(m) == LastMax(Head(m), Tail(m))

\* max(patterns, key=...) returns the first of the candidates of the highest
\* confidence
primary_candidate(m) == FirstMax(Head(m), Tail(m))

\* raises KeyError('quit_risk_patterns') when the sequence analysis was cut short
identify_behavior_pattern(actions, emo) ==
    IF Len(actions) < 3 THEN [raised |-> TRUE, primary_pattern |-> None, confidence |-> 0]
    ELSE LET m == MatchedPatterns(actions, emo)
             best == IF m = <<>> THEN <<"unknown", 0>> ELSE primary_candidate(m)
         IN  [raised |-> FALSE, primary_pattern |-> best[1], confidence |-> best[2]]

generate_intervention_suggestion(primary_pattern, risk_level) ==
    [needed  |-> risk_level \in {"high", "critical"}
                 \/ primary_pattern \in {"high_frustration", "quit_risk", "seeking_help"},
     urgency |-> IF risk_level = "critical" \/ primary_pattern = "quit_risk" THEN "immediate"
                 ELSE IF risk_level = "high" \/ primary_pattern = "high_frustration" THEN "high"
                 ELSE IF primary_pattern = "seeking_help" THEN "medium"
                 ELSE "low"]

ErrorResult == 
    [kind |-> "error", pattern |-> None, risk_level |-> 0, emotional_state |-> None,
     intervention_needed |-> FALSE, intervention_urgency |-> None,
     current_state |-> None, trajectory |-> None, current_score |-> 0,
     risk_label |-> None, pattern_confidence |-> 0]

NoActivityResult ==
    [kind |-> "no_activity", pattern |-> "no_activity", risk_level |-> 1,
     emotional_state |-> "unknown", intervention_needed |-> FALSE,
     intervention_urgency |-> None, current_state |-> None, trajectory |-> None,
     current_score |-> 0, risk_label |-> None, pattern_confidence |-> 0]

\* kind = "error" stands for the exception analyze_player_behavior catches
perform_comprehensive_analysis(pl, actions, clock) ==
    IF actions = <<>> THEN NoActivityResult
    ELSE Only({ Only({
             LET sug == generate_intervention_suggestion(a.pat.primary_pattern,
                                                         a.risk.risk_level)
             IN  IF a.pat.raised THEN ErrorResult
                 ELSE [kind |-> "full", pattern |-> a.pat.primary_pattern,
                       risk_level |-> a.risk.risk_score,
                       emotional_state |-> emo.current_state,
                       intervention_needed |-> sug.needed,
                       intervention_urgency |-> sug.urgency,
                       current_state |-> emo.current_state,
                       trajectory |-> emo.trajectory,
                       current_score |-> emo.current_score,
                       risk_label |-> a.risk.risk_level,
                       pattern_confidence |-> a.pat.confidence]
             : a \in {[risk |-> assess_risk_level(pl, actions, emo, clock),
                       pat  |-> identify_behavior_pattern(actions, emo)]} })
           : emo \in {analyze_emotional_trajectory(actions)} })

(***************************************************************************)
(* triggers/behavior_analyzer.py: the caches.  The analyzer state is the   *)
(* record [cache, recent, risk]; every operation returns the new state     *)
(* next to its result.                                                     *)
(***************************************************************************)
DigitChar(d) == CASE d = 0 -> "0" [] d = 1 -> "1" [] d = 2 -> "2" [] d = 3 -> "3"
                  [] d = 4 -> "4" [] d = 5 -> "5" [] d = 6 -> "6" [] d = 7 -> "7"
                  [] d = 8 -> "8" [] OTHER -> "9"

\* str(n) for n >= 0
RECURSIVE Digits(_)
Digits(n) == IF n < 10 THEN <<DigitChar(n)>>
             ELSE Digits(n \div 10) \o <<DigitChar(n % 10)>>

\* f"{player_id}_{time_window_minutes}"
CacheKey(pid, window) == pid \o <<"_">> \o Digits(window)

Put(f, k, v) == [x \in DOMAIN f \cup {k} |-> IF x = k THEN v ELSE f[x]]

Analyzer(cache, recent, risk) == [cache |-> cache, recent |-> recent, risk |-> risk]

is_cache_valid(an, clock, key) ==
    key \in DOMAIN an.cache /\ (clock - an.cache[key].timestamp) * 60 < CacheTtlMinutes * 60

\* the update without the clear(): the deque drops its oldest entries
update_recent_actions_append(an, pid, actions) ==
    [an EXCEPT !.recent =
        Put(an.recent, pid,
            LastN((IF pid \in DOMAIN an.recent THEN an.recent[pid] ELSE <<>>)
                  \o SortNewestFirst(actions), RecentActionsMax))]

update_recent_actions(an, pid, actions) ==
    [an EXCEPT !.recent = Put(an.recent, pid, Take(SortNewestFirst(actions), RecentActionsMax))]

analyze_player_behavior_caching_error(an, reg, hist, clock, pid, window, force_refresh) ==
    IF pid \notin DOMAIN reg
    THEN [result |-> ErrorResult,
          an |-> [an EXCEPT !.cache = Put(an.cache, CacheKey(pid, window),
                                          [data |-> ErrorResult, timestamp |-> clock])]]
    ELSE [result |-> NoActivityResult, an |-> an]

analyze_player_behavior(an, reg, hist, clock, pid, window, force_refresh) ==
    LET key == CacheKey(pid, window)
    IN  IF ~force_refresh /\ is_cache_valid(an, clock, key)
        THEN [result |-> an.cache[key].data, an |-> an]
        ELSE IF pid \notin DOMAIN reg
        THEN [result |-> ErrorResult, an |-> an]
        ELSE Only({ Only({
                 IF res.kind = "error"
                 THEN [result |-> ErrorResult, an |-> an]
                 ELSE [result |-> res,
                       an |-> update_recent_actions(
                                 [an EXCEPT !.cache = Put(an.cache, key,
                                      [data |-> res, timestamp |-> clock])],
                                 pid, actions)]
                 : res \in {perform_comprehensive_analysis(reg[pid], actions, clock)} })
               : actions \in {get_player_actions(hist, clock, pid, AnalysisLimit, window)} })

\* self.recent_actions is a defaultdict: reading a missing key creates it
get_real_time_risk_score(an, reg, clock, pid) ==
    IF pid \in DOMAIN an.risk /\ (clock - an.risk[pid].timestamp) * 60 < RiskCacheSeconds
    THEN [score |-> an.risk[pid].score, an |-> an]
    ELSE LET an1 == IF pid \in DOMAIN an.recent THEN an
                    ELSE [an EXCEPT !.recent = Put(an.recent, pid, <<>>)]
             recent == an1.recent[pid]
         IN  IF recent = <<>> THEN [score |-> 0, an |-> an1]
             ELSE IF pid \notin DOMAIN reg THEN [score |-> 0, an |-> an1]
             ELSE LET pl == reg[pid]
                      raw == pl.consecutive_failures * 10 + pl.frustration_level * 3
                             + Count(Take(recent, 5), is_failure) * 5
                      score == Min2(100, Max2(0, raw))
                  IN  [score |-> score,
                       an |-> [an1 EXCEPT !.risk = Put(an1.risk, pid,
                                   [score |-> score, timestamp |-> clock])]]

(***************************************************************************)
(* models/trigger.py: conditions.  0 stands for None in min_vip_level and  *)
(* min_total_spent (the code tests their truthiness).                      *)
(***************************************************************************)
Condition(name, type, minf, window, required, minvip, cooldown) ==
    [name |-> name, trigger_type |-> type, min_failures |-> minf,
     time_window_minutes |-> window, required_action_types |-> required,
     min_vip_level |-> minvip, min_total_spent |-> 0, min_emotional_impact |-> -5,
     cooldown_hours |-> cooldown]

DEFAULT_TRIGGERS ==
    << Condition(<<"s", "i", "e", "g", "e">>, "consecutive_failures", 1, 20,
                 {"attack_city"}, 0, 1),
       Condition(<<"v", "i", "p">>, "high_value_risk", 1, 10,
                 {"battle_lose", "complain"}, 3, 1),
       Condition(<<"h", "e", "l", "p">>, "help_seeking", 1, 3,
                 {"battle_lose", "open_guide"}, 0, 1),
       Condition(<<"e", "m", "o">>, "emotion_intervention", 0, 60, {}, 0, 2),
       Condition(<<"b", "o", "t">>, "bot_detection", 0, 120, {}, 0, 6),
       Condition(<<"c", "h", "u", "r", "n">>, "churn_risk", 0, 1440, {}, 0, 12) >>

(***************************************************************************)
(* triggers/trigger_engine.py: evaluation of one condition                 *)
(***************************************************************************)
ActiveWindowMinutes   == 60
CheckWindowMinutes    == 120
CheckLimit            == 50
HistoryRetentionHours == 24
RiskThreshold         == 40
EventActionsMax       == 5
StreakStart           == 10

\* f"{player_id}_{condition.name}"
HistoryKey(pid, name) == pid \o <<"_">> \o name

should_check_condition_strict(history, clock, pid, c) ==
    IF c.cooldown_hours <= 0 THEN TRUE
    ELSE LET key == HistoryKey(pid, c.name)
         IN  IF key \notin DOMAIN history THEN TRUE
             ELSE IF history[key] = <<>> THEN TRUE
             ELSE LET last == CHOOSE t \in SeqToSet(history[key]) :
                                  \A u \in SeqToSet(history[key]) : u <= t
                  IN  clock > last + c.cooldown_hours * 60

should_check_condition(history, clock, pid, c) ==
    IF c.cooldown_hours <= 0 THEN TRUE
    ELSE LET key == HistoryKey(pid, c.name)
         IN  IF key \notin DOMAIN history THEN TRUE
             ELSE IF history[key] = <<>> THEN TRUE
             ELSE LET last == CHOOSE t \in SeqToSet(history[key]) :
                                  \A u \in SeqToSet(history[key]) : u <= t
                  IN  clock >= last + c.cooldown_hours * 60

check_player_filters(pl, c) ==
    /\ ~(c.min_vip_level # 0 /\ pl.vip_level < c.min_vip_level)
    /\ ~(c.min_total_spent # 0 /\ pl.total_spent < c.min_total_spent)

RECURSIVE LeadingFailures(_)
LeadingFailures(s) ==
    IF s = <<>> THEN 0
    ELSE IF is_failure(Head(s)) THEN 1 + LeadingFailures(Tail(s))
    ELSE 0

check_consecutive_failures_no_guard(pl, actions, c, clock) ==
    IF c.time_window_minutes # 0
    THEN LET recent == SelectSeq(actions,
                           LAMBDA a : a.timestamp >= clock - c.time_window_minutes)
         IN  /\ \A t \in c.required_action_types :
                    \E i \in 1..Len(recent) : recent[i].action_type = t
             /\ StreakStart + LeadingFailures(SortNewestFirst(recent)) >= c.min_failures
    ELSE TRUE

check_consecutive_failures(pl, actions, c, clock) ==
    IF pl.consecutive_failures < c.min_failures THEN FALSE
    ELSE IF c.time_window_minutes # 0
    THEN LET recent == SelectSeq(actions,
                           LAMBDA a : a.timestamp >= clock - c.time_window_minutes)
         IN  /\ \A t \in c.required_action_types :
                    \E i \in 1..Len(recent) : recent[i].action_type = t
             /\ StreakStart + LeadingFailures(SortNewestFirst(recent)) >= c.min_failures
    ELSE TRUE

\* raised: the AttributeError of condition.emotional_threshold, a field
\* TriggerCondition does not declare
check_emotional_decline(an, reg, hist, clock, pid, actions, c) ==
    IF actions = <<>> THEN [fires |-> FALSE, raised |-> FALSE, an |-> an]
    ELSE LET r == analyze_player_behavior(an, reg, hist, clock, pid,
                      IF c.time_window_minutes # 0 THEN c.time_window_minutes ELSE 60,
                      FALSE)
         IN  IF r.result.kind = "error"
             THEN [fires |-> FALSE, raised |-> FALSE, an |-> r.an]
             ELSE IF r.result.kind = "full"
                     /\ (r.result.current_state \in {"frustrated", "declining"}
                         \/ r.result.trajectory = "declining")
             THEN [fires |-> TRUE, raised |-> FALSE, an |-> r.an]
             ELSE [fires |-> FALSE, raised |-> TRUE, an |-> r.an]

check_help_seeking(actions, c, clock) ==
    IF actions = <<>> THEN FALSE
    ELSE LET window == IF c.time_window_minutes # 0 THEN c.time_window_minutes ELSE 30
             recent == SelectSeq(actions, LAMBDA a : a.timestamp >= clock - window)
         IN  Count(recent, is_help_seeking) > 0

check_high_value_risk(an, reg, clock, pid, pl) ==
    IF ~is_high_value(pl) THEN [fires |-> FALSE, raised |-> FALSE, an |-> an]
    ELSE LET r == get_real_time_risk_score(an, reg, clock, pid)
         IN  [fires |-> r.score >= RiskThreshold, raised |-> FALSE, an |-> r.an]

check_social_isolation(actions) ==
    IF Len(actions) < 10 THEN FALSE
    ELSE 100 * Count(actions, is_social_activity) < 5 * Len(actions) /\ Len(actions) > 10

unknown_trigger_type_fires(c) == TRUE

\* the else branch: a trigger type without a check is logged and evaluates to false
unknown_trigger_type(c) == FALSE

\* fires is what the method returns; raised tells that its except clause ran
evaluate_trigger_condition(an, reg, hist, clock, pid, pl, actions, c) ==
    LET pure(b) == [fires |-> b, raised |-> FALSE, an |-> an]
    IN  IF ~check_player_filters(pl, c) THEN pure(FALSE)
        ELSE CASE c.trigger_type = "consecutive_failures" ->
                      pure(check_consecutive_failures(pl, actions, c, clock))
               [] c.trigger_type = "emotional_decline" ->
                      check_emotional_decline(an, reg, hist, clock, pid, actions, c)
               [] c.trigger_type = "help_seeking" ->
                      pure(check_help_seeking(actions, c, clock))
               [] c.trigger_type = "high_value_risk" ->
                      check_high_value_risk(an, reg, clock, pid, pl)
               [] c.trigger_type = "social_isolation" ->
                      pure(check_social_isolation(actions))
               [] OTHER -> pure(unknown_trigger_type(c))

(***************************************************************************)
(* triggers/trigger_engine.py: firing, the per-player check, the cleanup   *)
(* and force_check_player.  The engine state threaded through a check is   *)
(* the record [an, events, history, fired, hlog, flog, considered].        *)
(***************************************************************************)
RECURSIVE MaxTimestamp(_)
MaxTimestamp(s) ==
    IF Len(s) = 1 THEN s[1].timestamp
    ELSE Max2(s[1].timestamp, MaxTimestamp(Tail(s)))

TriggerTime_wall_clock(actions, clock) == clock

TriggerTime(actions, clock) ==
    IF actions # <<>> THEN MaxTimestamp(Take(actions, EventActionsMax)) ELSE clock

\* event_id is f"{player_id}_{condition.name}_{int(trigger_time.timestamp())}"
TriggerEvent(pid, pl, actions, c, clock) ==
    [event_id |-> HistoryKey(pid, c.name) \o <<"_">> \o Digits(TriggerTime(actions, clock)),
     player_id |-> pid,
     condition |-> c.name,
     trigger_type |-> c.trigger_type,
     triggered_at |-> TriggerTime(actions, clock),
     triggering_actions |-> Take(actions, EventActionsMax),
     player_status_snapshot |->
         [vip_level |-> pl.vip_level,
          consecutive_failures |-> pl.consecutive_failures,
          frustration_level |-> pl.frustration_level,
          status |-> pl.current_status]]

HandlersFor(handlers, type) == IF type \in DOMAIN handlers THEN handlers[type] ELSE <<>>

RECURSIVE invoke_handlers_propagating(_, _, _)
invoke_handlers_propagating(hs, event_id, raising) ==
    IF hs = <<>> THEN [log |-> <<>>, propagated |-> FALSE]
    ELSE LET inv == [handler |-> Head(hs), event_id |-> event_id,
                     raised |-> Head(hs) \in raising]
         IN  IF Head(hs) \in raising THEN [log |-> <<inv>>, propagated |-> TRUE]
             ELSE LET rest == invoke_handlers_propagating(Tail(hs), event_id, raising)
                  IN  [log |-> <<inv>> \o rest.log, propagated |-> rest.propagated]

\* the handler loop: every handler is called, a raising one is caught and logged
invoke_handlers(hs, event_id, raising) ==
    [log |-> [i \in 1..Len(hs) |->
                 [handler |-> hs[i], event_id |-> event_id, raised |-> hs[i] \in raising]],
     propagated |-> FALSE]

\* the increment moved into the handler loop
update_stats_per_handler(fired, hs) == fired + Len(hs)

\* stats["triggers_fired"] += 1, after the handler loop
update_stats(fired, hs) == fired + 1

handlers_called_before(before, persisted, recorded) == before

\* the engine state a handler finds when it is called: the handler loop comes after
\* add_trigger_event and after the append to trigger_history
handlers_called(before, persisted, recorded) == recorded

\* what a handler can see of the event it is called with
handler_view(seen, before, ev, key, clock) ==
    [persisted |-> /\ Len(seen.events) = Len(before.events) + 1
                   /\ seen.events[Len(seen.events)] = ev,
     recorded  |-> /\ key \in DOMAIN seen.history
                   /\ seen.history[key] # <<>>
                   /\ seen.history[key][Len(seen.history[key])] = clock
                   /\ \/ key \notin DOMAIN before.history
                      \/ Len(seen.history[key]) = Len(before.history[key]) + 1]

\* persist_fails: add_trigger_event raises, which the outer except catches
fire_trigger(st, handlers, clock, pid, pl, actions, c, raising, persist_fails) ==
    IF persist_fails THEN st
    ELSE LET ev   == Only({e : e \in {TriggerEvent(pid, pl, actions, c, clock)}})
             key  == HistoryKey(pid, c.name)
             old  == IF key \in DOMAIN st.history THEN st.history[key] ELSE <<>>
             st1  == [st EXCEPT !.events = Append(@, ev)]
             st2  == [st1 EXCEPT !.history = Put(@, key, Append(old, clock))]
             view == handler_view(handlers_called(st, st1, st2), st, ev, key, clock)
             inv  == invoke_handlers(HandlersFor(handlers, c.trigger_type),
                                     ev.event_id, raising)
         IN  [st2 EXCEPT
                 !.hlog  = @ \o [i \in 1..Len(inv.log) |->
                                    [handler |-> inv.log[i].handler,
                                     event_id |-> inv.log[i].event_id,
                                     raised |-> inv.log[i].raised,
                                     persisted |-> view.persisted,
                                     recorded |-> view.recorded]],
                 !.fired = IF inv.propagated THEN @
                           ELSE update_stats(@, HandlersFor(handlers, c.trigger_type)),
                 !.flog  = Append(@, [player_id |-> pid, condition |-> c.name,
                                      cooldown_hours |-> c.cooldown_hours,
                                      time |-> clock, event_id |-> ev.event_id,
                                      handlers |-> HandlersFor(handlers,
                                                               c.trigger_type)])]

continue_after_error_abort(raised) == ~raised

\* the except clauses of the per-condition and per-player loops swallow the
\* exception, so the loop goes on with the next element
continue_after_error(raised) == TRUE

\* one iteration of the loop over the conditions; err tells that an except clause
\* ran.  ctx: [reg, hist, clock, pid, pl, actions, handlers, raising, persist_fail]
check_condition(st, c, ctx) ==
    Only({ LET st0 == [st EXCEPT !.considered = @ \cup {<<ctx.pid, c.name>>}]
               go  == should_check_condition(st.history, ctx.clock, ctx.pid, c)
               st1 == IF go THEN [st0 EXCEPT !.an = ev.an] ELSE st0
               pf  == c.name = ctx.persist_fail
           IN  [st  |-> IF go /\ ev.fires
                        THEN fire_trigger(st1, ctx.handlers, ctx.clock, ctx.pid, ctx.pl,
                                          ctx.actions, c, ctx.raising, pf)
                        ELSE st1,
                err |-> go /\ (ev.raised \/ (ev.fires /\ pf))]
           : ev \in {evaluate_trigger_condition(st.an, ctx.reg, ctx.hist, ctx.clock,
                                                ctx.pid, ctx.pl, ctx.actions, c)} })

RECURSIVE check_conditions(_, _, _)
check_conditions(st, conds, ctx) ==
    IF conds = <<>> THEN st
    ELSE Only({ IF continue_after_error(r.err)
                THEN check_conditions(r.st, Tail(conds), ctx)
                ELSE r.st
                : r \in {check_condition(st, Head(conds), ctx)} })

cleanup_trigger_history_keep_empty(history, clock) ==
    LET cutoff  == clock - HistoryRetentionHours * 60
    IN  [k \in DOMAIN history |-> SelectSeq(history[k], LAMBDA t : t >= cutoff)]

cleanup_trigger_history(history, clock) ==
    LET cutoff  == clock - HistoryRetentionHours * 60
        kept(k) == SelectSeq(history[k], LAMBDA t : t >= cutoff)
        keys    == {k \in DOMAIN history : kept(k) # <<>>}
    IN  [k \in keys |-> kept(k)]

get_active_players_all(order, hist, clock) == order

\* the ids of get_all_players() that have an action in the last hour
get_active_players(order, hist, clock) ==
    SelectSeq(order, LAMBDA pid :
        get_player_actions(hist, clock, pid, 1, ActiveWindowMinutes) # <<>>)

\* acc: [events, fired_names, an]; fired_names are the conditions whose evaluation
\* returned true in this call
RECURSIVE force_check_conditions_if_true(_, _, _)
force_check_conditions_if_true(acc, conds, ctx) ==
    IF conds = <<>> THEN acc
    ELSE IF ~check_player_filters(ctx.pl, Head(conds))
    THEN force_check_conditions_if_true(acc, Tail(conds), ctx)
    ELSE Only({ force_check_conditions_if_true(acc1, Tail(conds), ctx) : acc1 \in
           { Only({ [events |-> IF ev.fires
                                THEN Append(acc.events,
                                            TriggerEvent(ctx.pid, ctx.pl, ctx.actions,
                                                         Head(conds), ctx.clock))
                                ELSE acc.events,
                     fired_names |-> IF ev.fires
                                     THEN Append(acc.fired_names, Head(conds).name)
                                     ELSE acc.fired_names,
                     an |-> ev.an]
                    : ev \in {evaluate_trigger_condition(acc.an, ctx.reg, ctx.hist,
                                  ctx.clock, ctx.pid, ctx.pl, ctx.actions, Head(conds))} })
           } })

\* the loop of force_check_player: the test of condition_result is commented out,
\* so an event is appended for every condition that passes the player filters
RECURSIVE force_check_conditions(_, _, _)
force_check_conditions(acc, conds, ctx) ==
    IF conds = <<>> THEN acc
    ELSE IF ~check_player_filters(ctx.pl, Head(conds))
    THEN force_check_conditions(acc, Tail(conds), ctx)
    ELSE Only({ force_check_conditions(acc1, Tail(conds), ctx) : acc1 \in
           { Only({ [events |-> Append(acc.events,
                                       TriggerEvent(ctx.pid, ctx.pl, ctx.actions,
                                                    Head(conds), ctx.clock)),
                     fired_names |-> IF ev.fires
                                     THEN Append(acc.fired_names, Head(conds).name)
                                     ELSE acc.fired_names,
                     an |-> ev.an]
                    : ev \in {evaluate_trigger_condition(acc.an, ctx.reg, ctx.hist,
                                  ctx.clock, ctx.pid, ctx.pl, ctx.actions, Head(conds))} })
           } })

force_check_player(an, reg, hist, conds, clock, pid) ==
    IF pid \notin DOMAIN reg
    THEN [events |-> <<>>, fired_names |-> <<>>, an |-> an]
    ELSE Only({ force_check_conditions(
                    [events |-> <<>>, fired_names |-> <<>>, an |-> an], conds, ctx)
                : ctx \in {[reg |-> reg, hist |-> hist, clock |-> clock, pid |-> pid,
                            pl |-> reg[pid],
                            actions |-> get_player_actions(hist, clock, pid, CheckLimit,
                                                           CheckWindowMinutes)]} })

(***************************************************************************)
(* The state machine: one action per operation, without bounds.  The       *)
(* specifications further down bound them.                                 *)
(***************************************************************************)
P1  == <<"p", "1">>
P10 == <<"p", "1", "0">>
PX  == <<"x">>

\* the order of DataManager.players (a dict keeps insertion order)
PlayerOrder == <<P1, P10>>
PlayerIds   == SeqToSet(PlayerOrder)
CallerIds   == PlayerIds \cup {PX}

HandlerIds   == {"h1", "h2"}
HandlerTypes == {"consecutive_failures"}

AttackCity == <<"attack_city", "failure">>
BattleWin  == <<"battle_win", None>>
Complain   == <<"complain", None>>
Login      == <<"login", None>>

\* conditions added through add_trigger_condition
LongCooldown == Condition(<<"l", "o", "n", "g">>, "consecutive_failures", 1, 20,
                          {"attack_city"}, 0, 48)
Decline      == Condition(<<"d", "e", "c">>, "emotional_decline", 1, 60, {}, 0, 1)

ConditionNames(conds) == {conds[i].name : i \in 1..Len(conds)}

EmptyMap == [k \in {} |-> <<>>]

IdleCycleLog ==
    [active |-> <<>>, visited |-> {}, considered |-> {}, failed |-> {},
     done |-> FALSE, stopped_during |-> FALSE]

IdleCallLog ==
    [op |-> None, player |-> PX, events |-> <<>>, fired_names |-> <<>>, fresh |-> FALSE,
     condition |-> NoName]

\* rejected: the ids analysed so far while they were not in the registry
IdleAnalysisLog ==
    [op |-> None, player |-> PX, window |-> 0, result |-> ErrorResult, rejected |-> {}]

\* SmartGameAgent.__init__: the counters start at 0; llm_client and agent_executor
\* are None when the language model could not be set up
NewAgent(llm_client, agent_executor) ==
    [llm_client |-> llm_client, agent_executor |-> agent_executor,
     intervention_count |-> 0, success_count |-> 0]

\* raised: an exception was raised, and caught, while the call analysed or executed
IdleAgentLog ==
    [op |-> None, player |-> PX, success |-> FALSE, error |-> FALSE, raised |-> FALSE,
     propagated |-> FALSE]

\* the state after DataManager(), BehaviorAnalyzer(dm), TriggerEngine(dm, analyzer),
\* with the registry reg and the action log hist loaded at time clock
InitWithAgent(reg, hist, clock, ag) ==
    /\ now = clock
    /\ players = reg
    /\ action_history = hist
    /\ trigger_events = <<>>
    /\ mail_history = <<>>
    /\ mails_sent = 0
    /\ behavior_cache = EmptyMap
    /\ recent_actions = EmptyMap
    /\ risk_scores = EmptyMap
    /\ trigger_conditions = DEFAULT_TRIGGERS
    /\ event_handlers = [t \in HandlerTypes |-> <<>>]
    /\ is_running = FALSE
    /\ monitor_thread = 0
    /\ threads = <<>>
    /\ lock_owner = 0
    /\ cycle_todo = <<>>
    /\ trigger_history = EmptyMap
    /\ triggers_fired = 0
    /\ stop_pc = "idle"
    /\ handler_log = <<>>
    /\ fire_log = <<>>
    /\ cycle_log = IdleCycleLog
    /\ call_log = IdleCallLog
    /\ analysis_log = IdleAnalysisLog
    /\ agent = ag
    /\ agent_log = IdleAgentLog
    /\ stop_seen = FALSE
    /\ ticks = 0

\* the same with an agent that has no language model
InitWith(reg, hist, clock) == InitWithAgent(reg, hist, clock, NewAgent(FALSE, FALSE))

FreshPlayers == [pid \in PlayerIds |-> Player(IF pid = P1 THEN 3 ELSE 0, 0, 0, 0)]

Init == InitWith(FreshPlayers, <<>>, 0)

Stale(log) == [log EXCEPT !.fresh = FALSE]

\* DataManager.add_action of an action stamped datetime.now() - age
AddAction(pid, kind, age) ==
    /\ LET a == PlayerAction(pid, kind[1], kind[2], now - age)
       IN  /\ action_history' = Append(action_history, a)
           /\ players' = IF pid \in DOMAIN players
                         THEN [players EXCEPT ![pid] = player_after_action(@, a)]
                         ELSE players
    /\ call_log' = Stale(call_log)
    /\ UNCHANGED <<now, trigger_events, mail_history, mails_sent, analyzerVars,
                   threadVars, engineVars, obsVars, analysis_log, agentVars, stop_seen, ticks>>

\* DataManager.update_player: the player is put into the registry
UpdatePlayer(pid, pl) ==
    /\ players' = Put(players, pid, pl)
    /\ call_log' = Stale(call_log)
    /\ UNCHANGED <<now, action_history, trigger_events, mail_history, mails_sent,
                   analyzerVars, threadVars, engineVars, obsVars, analysis_log, agentVars,
                   stop_seen, ticks>>

\* Player.increment_failures called on a registered player
IncrementFailures(pid) ==
    /\ players' = [players EXCEPT ![pid] = increment_failures(@)]
    /\ call_log' = Stale(call_log)
    /\ UNCHANGED <<now, action_history, trigger_events, mail_history, mails_sent,
                   analyzerVars, threadVars, engineVars, obsVars, analysis_log, agentVars,
                   stop_seen, ticks>>

\* Player.reset_failures called on a registered player
ResetFailures(pid) ==
    /\ players' = [players EXCEPT ![pid] = reset_failures(@)]
    /\ call_log' = Stale(call_log)
    /\ UNCHANGED <<now, action_history, trigger_events, mail_history, mails_sent,
                   analyzerVars, threadVars, engineVars, obsVars, analysis_log, agentVars,
                   stop_seen, ticks>>

\* what _execute_intervention_plan does to a player it has found: the call of
\* reset_failure_count, a method Player does not have, raises AttributeError before
\* frustration_level is lowered, so the player is left as it was
intervention_player_update(pl) == pl

\* SmartGameAgent._execute_intervention_plan
\* agent_log records what the call returned: success is a true 'mail_sent', error
\* the presence of 'error'; for a registered player the except clause returns
ExecuteInterventionPlan(pid) ==
    /\ mail_history' = Append(mail_history, [player_id |-> pid])
    /\ mails_sent' = mails_sent + 1
    /\ players' = IF pid \in DOMAIN players
                  THEN [players EXCEPT ![pid] = intervention_player_update(@)]
                  ELSE players
    /\ agent_log' = [op |-> "execute_plan", player |-> pid,
                     success |-> pid \notin DOMAIN players,
                     error |-> pid \in DOMAIN players,
                     raised |-> pid \in DOMAIN players, propagated |-> FALSE]
    /\ call_log' = Stale(call_log)
    /\ UNCHANGED <<now, action_history, trigger_events, analyzerVars, threadVars,
                   engineVars, obsVars, analysis_log, agent, stop_seen, ticks>>

\* the clock advances by d minutes
Tick(d) ==
    /\ now' = now + d
    /\ ticks' = ticks + 1
    /\ call_log' = Stale(call_log)
    /\ UNCHANGED <<storeVars, analyzerVars, threadVars, engineVars, obsVars,
                   analysis_log, agentVars, stop_seen>>

AddTriggerCondition(c) ==
    /\ c.name \notin ConditionNames(trigger_conditions)
    /\ trigger_conditions' = Append(trigger_conditions, c)
    /\ call_log' = Stale(call_log)
    /\ UNCHANGED <<now, storeVars, analyzerVars, threadVars, event_handlers,
                   trigger_history, triggers_fired, obsVars, analysis_log, agentVars, stop_seen,
                   ticks>>

RegisterEventHandler(type, h) ==
    /\ \A t \in HandlerTypes : h \notin SeqToSet(event_handlers[t])
    /\ event_handlers' = [event_handlers EXCEPT ![type] = Append(@, h)]
    /\ UNCHANGED <<now, storeVars, analyzerVars, threadVars, trigger_conditions,
                   trigger_history, triggers_fired, obsVars, callVars, stop_seen, ticks>>

\* start_monitoring: on a running engine it logs a warning and returns; otherwise
\* it sets the flag and starts a new thread on _monitoring_loop
StartMonitoring ==
    /\ stop_pc = "idle"
    /\ IF is_running
       THEN UNCHANGED <<is_running, threads, monitor_thread>>
       ELSE /\ is_running' = TRUE
            /\ threads' = Append(threads, "loop")
            /\ monitor_thread' = Len(threads) + 1
    /\ UNCHANGED <<now, storeVars, analyzerVars, lock_owner, cycle_todo, stop_pc,
                   engineVars, obsVars, callVars, stop_seen, ticks>>

\* stop_monitoring up to the join; on an engine that is not running it returns at once
StopMonitoring ==
    /\ stop_pc = "idle"
    /\ IF ~is_running
       THEN /\ call_log' = [IdleCallLog EXCEPT !.op = "stop_not_running"]
            /\ UNCHANGED <<is_running, stop_pc, stop_seen, cycle_log>>
       ELSE /\ is_running' = FALSE
            /\ stop_pc' = IF monitor_thread # 0 THEN "joining" ELSE "idle"
            /\ stop_seen' = TRUE
            /\ cycle_log' = [cycle_log EXCEPT !.stopped_during =
                                @ \/ (\E t \in 1..Len(threads) : threads[t] = "cycle")]
            /\ call_log' = [IdleCallLog EXCEPT !.op = "stop"]
    /\ UNCHANGED <<now, storeVars, analyzerVars, monitor_thread, threads, lock_owner,
                   cycle_todo, engineVars, handler_log, fire_log, analysis_log, agentVars, ticks>>

\* join(timeout=5) returns: the thread has ended or the timeout has expired
StopReturn ==
    /\ stop_pc = "joining"
    /\ stop_pc' = "idle"
    /\ UNCHANGED <<now, storeVars, analyzerVars, is_running, monitor_thread, threads,
                   lock_owner, cycle_todo, engineVars, obsVars, callVars, stop_seen,
                   ticks>>

loop_test_ignoring_flag(running) == "enter"

\* while self.is_running
loop_test(running) == IF running THEN "enter" ELSE "exited"

\* the thread wakes up (or has just started) and tests the loop condition
LoopTest(t) ==
    /\ threads[t] = "loop"
    /\ threads' = [threads EXCEPT ![t] = loop_test(is_running)]
    /\ UNCHANGED <<now, storeVars, analyzerVars, is_running, monitor_thread, lock_owner,
                   cycle_todo, stop_pc, engineVars, obsVars, callVars, stop_seen, ticks>>

\* except Exception in _monitoring_loop: log, sleep, go round again
after_cycle_error(pc) == "loop"

lock_free_unguarded(owner) == TRUE

\* with self._lock: the cycle begins when no thread holds the lock
lock_free(owner) == owner = 0

\* _perform_check_cycle up to the loop over the players; store_fails: the store
\* raises in _get_active_players, which ends the cycle
CycleBegin(t, store_fails) ==
    /\ threads[t] = "enter"
    /\ lock_free(lock_owner)
    /\ IF store_fails
       THEN /\ threads' = [threads EXCEPT ![t] = after_cycle_error(@)]
            /\ UNCHANGED <<lock_owner, cycle_todo, cycle_log>>
       ELSE /\ threads' = [threads EXCEPT ![t] = "cycle"]
            /\ lock_owner' = t
            /\ cycle_todo' = get_active_players(PlayerOrder, action_history, now)
            /\ cycle_log' = [IdleCycleLog EXCEPT !.active = cycle_todo']
    /\ UNCHANGED <<now, storeVars, analyzerVars, is_running, monitor_thread, stop_pc,
                   engineVars, handler_log, fire_log, callVars, stop_seen, ticks>>

\* one iteration of the loop over the active players: _check_player_triggers under
\* the try of _perform_check_cycle
CheckPlayer(t, store_fails, raising, persist_fail) ==
    /\ threads[t] = "cycle"
    /\ lock_owner = t
    /\ cycle_todo # <<>>
    /\ \E pid \in {Head(cycle_todo)} :
       \E st \in {[an |-> Analyzer(behavior_cache, recent_actions, risk_scores),
                   events |-> trigger_events, history |-> trigger_history,
                   fired |-> triggers_fired, hlog |-> handler_log, flog |-> fire_log,
                   considered |-> cycle_log.considered]} :
       \E ctx \in {[reg |-> players, hist |-> action_history, clock |-> now,
                    pid |-> pid, pl |-> players[pid],
                    actions |-> get_player_actions(action_history, now, pid, CheckLimit,
                                                   CheckWindowMinutes),
                    handlers |-> event_handlers, raising |-> raising,
                    persist_fail |-> persist_fail]} :
       \E out \in {IF store_fails THEN st
                    ELSE check_conditions(st, trigger_conditions, ctx)} :
           /\ behavior_cache' = out.an.cache
           /\ recent_actions' = out.an.recent
           /\ risk_scores' = out.an.risk
           /\ trigger_events' = out.events
           /\ trigger_history' = out.history
           /\ triggers_fired' = out.fired
           /\ handler_log' = out.hlog
           /\ fire_log' = out.flog
           /\ cycle_log' = [cycle_log EXCEPT
                               !.visited = @ \cup {pid},
                               !.considered = out.considered,
                               !.failed = IF store_fails THEN @ \cup {pid} ELSE @]
           /\ cycle_todo' = IF continue_after_error(store_fails)
                            THEN Tail(cycle_todo) ELSE <<>>
    /\ UNCHANGED <<now, players, action_history, mail_history, mails_sent, is_running,
                   monitor_thread, threads, lock_owner, stop_pc, trigger_conditions,
                   event_handlers, callVars, stop_seen, ticks>>

\* the end of the cycle: the history cleanup, the release of the lock, the sleep
CycleEnd(t) ==
    /\ threads[t] = "cycle"
    /\ lock_owner = t
    /\ cycle_todo = <<>>
    /\ trigger_history' = cleanup_trigger_history(trigger_history, now)
    /\ lock_owner' = 0
    /\ threads' = [threads EXCEPT ![t] = "loop"]
    /\ cycle_log' = [cycle_log EXCEPT !.done = TRUE]
    /\ UNCHANGED <<now, storeVars, analyzerVars, is_running, monitor_thread, cycle_todo,
                   stop_pc, trigger_conditions, event_handlers, triggers_fired,
                   handler_log, fire_log, callVars, stop_seen, ticks>>

force_check_engine_state_recording(st, events) ==
    [st EXCEPT !.events = @ \o events,
               !.fired = @ + Len(events),
               !.history = IF events = <<>> THEN @
                           ELSE Put(@, HistoryKey(events[1].player_id, events[1].condition),
                                    <<events[1].triggered_at>>)]

\* what force_check_player writes of [events, history, fired, hlog]: it builds its
\* events itself and calls neither _fire_trigger, add_trigger_event nor a handler
force_check_engine_state(st, events) == st

\* TriggerEngine.force_check_player
ForceCheckPlayer(pid) ==
    /\ \E r \in {force_check_player(Analyzer(behavior_cache, recent_actions, risk_scores),
                                     players, action_history, trigger_conditions, now,
                                     pid)} :
       \E st \in {force_check_engine_state(
                      [events |-> trigger_events, history |-> trigger_history,
                       fired |-> triggers_fired, hlog |-> handler_log], r.events)} :
           /\ behavior_cache' = r.an.cache
           /\ recent_actions' = r.an.recent
           /\ risk_scores' = r.an.risk
           /\ trigger_events' = st.events
           /\ trigger_history' = st.history
           /\ triggers_fired' = st.fired
           /\ handler_log' = st.hlog
           /\ call_log' = [op |-> "force_check", player |-> pid, events |-> r.events,
                           fired_names |-> r.fired_names, fresh |-> TRUE,
                           condition |-> NoName]
    /\ UNCHANGED <<now, players, action_history, mail_history, mails_sent, threadVars,
                   trigger_conditions, event_handlers, fire_log, cycle_log, analysis_log, agentVars,
                   stop_seen, ticks>>

\* BehaviorAnalyzer.analyze_player_behavior
AnalyzePlayerBehavior(pid, window, force_refresh) ==
    /\ \E r \in {analyze_player_behavior(
                      Analyzer(behavior_cache, recent_actions, risk_scores),
                      players, action_history, now, pid, window, force_refresh)} :
           /\ behavior_cache' = r.an.cache
           /\ recent_actions' = r.an.recent
           /\ risk_scores' = r.an.risk
           /\ analysis_log' = [op |-> "analyze", player |-> pid, window |-> window,
                               result |-> r.result,
                               rejected |-> IF pid \in DOMAIN players
                                            THEN analysis_log.rejected
                                            ELSE analysis_log.rejected \cup {pid}]
    /\ UNCHANGED <<now, storeVars, threadVars, engineVars, obsVars, call_log,
                   agentVars, stop_seen, ticks>>

(***************************************************************************)
(* SpecPlayer: the operations that change a player's failure streak and    *)
(* frustration level, from every frustration level in 0..10                *)
(***************************************************************************)
InitPlayer ==
    \E cf \in 0..2, fl \in 0..10 :
        InitWith([pid \in PlayerIds |-> Player(IF pid = P1 THEN 3 ELSE 0, 0,
                                                IF pid = P1 THEN cf ELSE 0,
                                                IF pid = P1 THEN fl ELSE 0)],
                 <<>>, 0)

NextPlayer ==
    \/ players[P1].consecutive_failures < MaxFailures /\ IncrementFailures(P1)
    \/ ResetFailures(P1)
    \/ /\ Len(action_history) < MaxActions
       /\ \E kind \in {AttackCity, BattleWin, Login} : AddAction(P1, kind, 0)
    \/ mails_sent < MaxMails /\ \E pid \in {P1, PX} : ExecuteInterventionPlan(pid)

SpecPlayer == InitPlayer /\ [][NextPlayer]_vars

\* C6: after any sequence of increment_failures, reset_failures, add_action and
\* intervention operations on a player that started with frustration_level in
\* [0,10], frustration_level is still in [0,10]
C6_FrustrationBounded ==
    \A pid \in DOMAIN players :
        players[pid].frustration_level >= 0 /\ players[pid].frustration_level <= 10

\* the streak has reached 3 at the upper bound, through an add_action, and an
\* intervention has run
C6_Witness ==
    /\ players[P1].frustration_level = 10
    /\ players[P1].current_status = "frustrated"
    /\ action_history # <<>>
    /\ is_failure(action_history[Len(action_history)])
    /\ \E i \in 1..Len(mail_history) : mail_history[i].player_id = P1

(***************************************************************************)
(* SpecRisk: analyze_player_behavior over a registry holding one player of *)
(* every profile and an action log of old and recent actions               *)
(***************************************************************************)
RiskClock   == 600
OldAge      == 180

Repeat(x, n) == [i \in 1..n |-> x]

RiskHistories ==
    { Repeat(PlayerAction(P1, ko[1], ko[2], RiskClock - OldAge), n_old)
      \o Repeat(PlayerAction(P1, kn[1], kn[2], RiskClock), n_new) :
        n_old \in {0, 1, 3, 6}, n_new \in {0, 1}, ko \in {AttackCity, Login},
        kn \in {Complain, BattleWin} }

InitRisk ==
    \E vip \in {0, 3}, spent \in {0, 100}, cf \in {0, 2, 3}, fl \in {0, 8},
       hist \in RiskHistories :
        InitWith([pid \in {P1} |-> Player(vip, spent, cf, fl)], hist, RiskClock)

NextRisk ==
    \E pid \in {P1, PX}, window \in {60, 240}, force \in BOOLEAN :
        AnalyzePlayerBehavior(pid, window, force)

SpecRisk == InitRisk /\ [][NextRisk]_vars

NoRecentActions(pid) ==
    get_player_actions(action_history, now, pid, CheckLimit, 120) = <<>>

\* C10: the analysis of a high-value player with consecutive_failures = 3 and
\* frustration_level = 8 who has no action in the last 2 hours reports a risk score
\* of at least 70 with level critical
C10_Claim ==
    ( /\ analysis_log.op = "analyze"
      /\ analysis_log.player = P1
      /\ is_high_value(players[P1])
      /\ players[P1].consecutive_failures = 3
      /\ players[P1].frustration_level = 8
      /\ NoRecentActions(P1) )
    => ( /\ analysis_log.result.kind = "full"
         /\ analysis_log.result.risk_level >= 70
         /\ analysis_log.result.risk_label = "critical" )

(***************************************************************************)
(* SpecCooldown: the scheduled path without faults, with a condition whose *)
(* cooldown is longer than a day, over clock advances of 25 hours          *)
(***************************************************************************)
LongTick == 1500

NextCooldown ==
    \/ Len(action_history) < MaxActions /\ AddAction(P1, AttackCity, 0)
    \/ ticks < MaxTicks /\ Tick(LongTick)
    \/ AddTriggerCondition(LongCooldown)
    \/ Len(threads) < MaxThreads /\ StartMonitoring
    \/ \E t \in 1..Len(threads) :
          \/ LoopTest(t)
          \/ CycleBegin(t, FALSE)
          \/ CheckPlayer(t, FALSE, {}, NoName)
          \/ CycleEnd(t)

SpecCooldown == Init /\ [][NextCooldown]_vars

\* C1: any two scheduled fires of the same (player, condition) pair are separated
\* by at least the condition's cooldown_hours
C1_CooldownSeparation ==
    \A i, j \in 1..Len(fire_log) :
        ( /\ i < j
          /\ fire_log[i].player_id = fire_log[j].player_id
          /\ fire_log[i].condition = fire_log[j].condition )
        => fire_log[j].time - fire_log[i].time >= fire_log[i].cooldown_hours * 60

(***************************************************************************)
(* SpecForce: force_check_player between player actions, clock advances,   *)
(* condition registrations and scheduled cycles                            *)
(***************************************************************************)
ShortTick == 30

NextForce ==
    \/ /\ Len(action_history) < MaxActions
       /\ \E kind \in {AttackCity, BattleWin} : AddAction(P1, kind, 0)
    \/ ticks < MaxTicks - 1 /\ Tick(ShortTick)
    \/ AddTriggerCondition(Decline)
    \/ RegisterEventHandler("consecutive_failures", "h1")
    \/ \E pid \in {P1, PX} : ForceCheckPlayer(pid)
    \/ Len(threads) < MaxThreads /\ StartMonitoring
    \/ \E t \in 1..Len(threads) :
          \/ LoopTest(t)
          \/ CycleBegin(t, FALSE)
          \/ CheckPlayer(t, FALSE, {}, NoName)
          \/ CycleEnd(t)

SpecForce == Init /\ [][NextForce]_vars

EventConditions(events) == {events[i].condition : i \in 1..Len(events)}

\* C2: force_check_player leaves trigger_history, the persisted trigger_events and
\* triggers_fired unchanged and invokes no handler, so the cooldown eligibility of
\* every (player, condition) pair is the same after it as before
C2_ForceCheckObservationOnly ==
    [][ (\E pid \in CallerIds : ForceCheckPlayer(pid))
        => /\ UNCHANGED <<trigger_history, trigger_events, triggers_fired, handler_log>>
           /\ \A pid \in PlayerIds : \A i \in 1..Len(trigger_conditions) :
                 should_check_condition(trigger_history', now', pid, trigger_conditions[i])
                 = should_check_condition(trigger_history, now, pid, trigger_conditions[i])
      ]_vars

\* a force check that returned events, on an engine with a handler registered, a
\* fire recorded and a pair in cooldown
C2_Witness ==
    /\ call_log.op = "force_check"
    /\ call_log.fresh
    /\ call_log.events # <<>>
    /\ call_log.fired_names # <<>>
    /\ event_handlers["consecutive_failures"] # <<>>
    /\ handler_log # <<>>
    /\ triggers_fired > 0
    /\ \E i \in 1..Len(trigger_conditions) :
          ~should_check_condition(trigger_history, now, call_log.player,
                                  trigger_conditions[i])

\* C3: force_check_player returns an event for a condition exactly when the
\* condition passes the player filters and its evaluation is true, and returns
\* nothing for an unknown player
C3_EventsIffWouldFire ==
    call_log.op = "force_check"
    => /\ EventConditions(call_log.events) = SeqToSet(call_log.fired_names)
       /\ call_log.player \notin DOMAIN players => call_log.events = <<>>

\* C4: a second force_check_player of the same player, with the registry, the
\* action log, the conditions and the clock as the first call left them, returns
\* the same events
C4_ForceCheckIdempotent ==
    [][ \A pid \in CallerIds :
          ( /\ ForceCheckPlayer(pid)
            /\ call_log.op = "force_check"
            /\ call_log.player = pid
            /\ call_log.fresh )
          => call_log'.events = call_log.events
      ]_vars

\* after a force check of a player with three failed sieges and the
\* emotional-decline condition registered, the analyzer's result cache, risk-score
\* cache and recent-actions buffer are populated and events were returned
C4_Witness ==
    /\ call_log.op = "force_check"
    /\ call_log.fresh
    /\ call_log.player = P1
    /\ Len(call_log.events) >= 2
    /\ players[P1].consecutive_failures >= 3
    /\ Decline.name \in ConditionNames(trigger_conditions)
    /\ behavior_cache # EmptyMap
    /\ P1 \in DOMAIN risk_scores
    /\ P1 \in DOMAIN recent_actions /\ recent_actions[P1] # <<>>

(***************************************************************************)
(* Spec: the scheduled path with the faults of the store, which may raise  *)
(* in _get_active_players, in get_player_actions and in add_trigger_event. *)
(* Conditions are registered before the monitor starts.                    *)
(***************************************************************************)
SiegeName == DEFAULT_TRIGGERS[1].name

Next ==
    \/ /\ Len(action_history) < MaxActions
       /\ \/ \E kind \in {AttackCity, BattleWin} : AddAction(P1, kind, 0)
          \/ AddAction(P10, AttackCity, 0)
    \/ threads = <<>> /\ AddTriggerCondition(Decline)
    \/ Len(threads) < MaxThreads /\ StartMonitoring
    \/ StopMonitoring
    \/ StopReturn
    \/ \E t \in 1..Len(threads) :
          \/ LoopTest(t)
          \/ \E store_fails \in BOOLEAN : CycleBegin(t, store_fails)
          \/ \E store_fails \in BOOLEAN, persist_fail \in {NoName, SiegeName} :
                CheckPlayer(t, store_fails, {}, persist_fail)
          \/ CycleEnd(t)

Spec == Init /\ [][Next]_vars

WindowActions(pid) ==
    get_player_actions(action_history, now, pid, CheckLimit, CheckWindowMinutes)

Evaluation(pid, c) ==
    evaluate_trigger_condition(Analyzer(behavior_cache, recent_actions, risk_scores),
                               players, action_history, now, pid, players[pid],
                               WindowActions(pid), c)

ConditionNamed(name) ==
    CHOOSE c \in SeqToSet(trigger_conditions) : c.name = name

\* C5: while a player's consecutive_failures is below a consecutive-failures
\* condition's min_failures the condition's evaluation is false, and every event the
\* scheduled path has persisted for such a condition was taken from a player whose
\* consecutive_failures had reached min_failures
C5_NoFireBelowMinFailures ==
    /\ \A pid \in DOMAIN players : \A i \in 1..Len(trigger_conditions) :
          ( /\ trigger_conditions[i].trigger_type = "consecutive_failures"
            /\ players[pid].consecutive_failures < trigger_conditions[i].min_failures )
          => ~Evaluation(pid, trigger_conditions[i]).fires
    /\ \A i \in 1..Len(trigger_events) :
          trigger_events[i].trigger_type = "consecutive_failures"
          => trigger_events[i].player_status_snapshot.consecutive_failures
             >= ConditionNamed(trigger_events[i].condition).min_failures

\* a finished cycle has considered the siege condition for a player whose streak a
\* win has reset to 0 while the failed siege is still in the window, and nothing
\* was fired for the player
C5_Witness ==
    /\ cycle_log.done
    /\ <<P1, SiegeName>> \in cycle_log.considered
    /\ P1 \notin cycle_log.failed
    /\ players[P1].consecutive_failures = 0
    /\ \E i \in 1..Len(WindowActions(P1)) :
          WindowActions(P1)[i].action_type = "attack_city"
    /\ \E i \in 1..Len(WindowActions(P1)) : is_success(WindowActions(P1)[i])
    /\ \A i \in 1..Len(trigger_events) : trigger_events[i].player_id # P1
    /\ \E i \in 1..Len(trigger_events) : trigger_events[i].player_id = P10

\* C7: a finished cycle has visited every active player whatever was raised on the
\* way and has considered every condition of every player whose check did not
\* raise, and a monitoring thread has left its loop only after stop_monitoring
C7_PartialFailureIsolation ==
    /\ cycle_log.done
       => /\ cycle_log.visited = SeqToSet(cycle_log.active)
          /\ \A pid \in cycle_log.visited \ cycle_log.failed :
                \A i \in 1..Len(trigger_conditions) :
                    <<pid, trigger_conditions[i].name>> \in cycle_log.considered
    /\ \A t \in 1..Len(threads) : threads[t] = "exited" => stop_seen

\* the check of the first active player raised, the second player was still
\* checked through the raising emotional-decline condition and fired
C7_Witness ==
    /\ cycle_log.done
    /\ cycle_log.active = <<P1, P10>>
    /\ cycle_log.failed = {P1}
    /\ <<P10, Decline.name>> \in cycle_log.considered
    /\ \E i \in 1..Len(trigger_events) : trigger_events[i].player_id = P10
    /\ ~stop_seen

(***************************************************************************)
(* SpecHandlers: scheduled fires with registered handlers, any set of      *)
(* which may raise, and a store that may raise in add_trigger_event        *)
(***************************************************************************)
NextHandlers ==
    \/ Len(action_history) < MaxActions /\ AddAction(P1, AttackCity, 0)
    \/ ticks < MaxTicks /\ Tick(2 * ShortTick)
    \/ \E h \in HandlerIds : RegisterEventHandler("consecutive_failures", h)
    \/ Len(threads) < MaxThreads /\ StartMonitoring
    \/ \E t \in 1..Len(threads) :
          \/ LoopTest(t)
          \/ CycleBegin(t, FALSE)
          \/ \E raising \in SUBSET HandlerIds, persist_fail \in {NoName, SiegeName} :
                CheckPlayer(t, FALSE, raising, persist_fail)
          \/ CycleEnd(t)

SpecHandlers == Init /\ [][NextHandlers]_vars

HandlerCalls(event_id) ==
    LET calls == SelectSeq(handler_log, LAMBDA x : x.event_id = event_id)
    IN  [i \in 1..Len(calls) |-> calls[i].handler]

\* C8: every scheduled fire has called all the handlers registered for its trigger
\* type, in registration order, whichever of them raised; its event is persisted,
\* its time is in the cooldown history and triggers_fired counts it once
C8_HandlerIsolation ==
    /\ triggers_fired = Len(fire_log)
    /\ Len(trigger_events) = Len(fire_log)
    /\ \A i \in 1..Len(fire_log) :
          /\ HandlerCalls(fire_log[i].event_id) = fire_log[i].handlers
          /\ trigger_events[i].event_id = fire_log[i].event_id
          /\ LET key == HistoryKey(fire_log[i].player_id, fire_log[i].condition)
             IN  key \in DOMAIN trigger_history
                 /\ \E j \in 1..Len(trigger_history[key]) :
                       trigger_history[key][j] = fire_log[i].time

\* the first of two handlers raised and the second was called after it
C8_Witness ==
    \E i, j \in 1..Len(handler_log) :
        /\ i < j
        /\ handler_log[i].event_id = handler_log[j].event_id
        /\ handler_log[i].raised
        /\ ~handler_log[j].raised
        /\ triggers_fired >= 1

(***************************************************************************)
(* SpecLoop: starting and stopping the monitor while players act.  The     *)
(* monitoring thread is a started Thread whose sleeps and cycles are       *)
(* finite, so each of its steps is eventually taken, and join(timeout=5)   *)
(* returns within its timeout.                                             *)
(***************************************************************************)
ThreadStep(t) ==
    /\ t \in 1..Len(threads)
    /\ \/ LoopTest(t)
       \/ CycleBegin(t, FALSE)
       \/ CheckPlayer(t, FALSE, {}, NoName)
       \/ CycleEnd(t)

NextLoop ==
    \/ /\ Len(action_history) < MaxActions
       /\ \E pid \in PlayerIds : AddAction(pid, AttackCity, 0)
    \/ Len(threads) < MaxThreads /\ StartMonitoring
    \/ StopMonitoring
    \/ StopReturn
    \/ \E t \in 1..MaxThreads : ThreadStep(t)

\* the scheduler runs every thread that can take a step (weak fairness of each
\* thread's steps), and the join of stop_monitoring returns
FairLoop ==
    /\ \A t \in 1..MaxThreads : WF_vars(ThreadStep(t))
    /\ WF_vars(StopReturn)

SpecLoop == Init /\ [][NextLoop]_vars /\ FairLoop

ThreadAt(t, pc) == IF t \in 1..Len(threads) THEN threads[t] = pc ELSE FALSE

AllExited == \A t \in 1..Len(threads) : threads[t] = "exited"

\* C9: once stop_monitoring has cleared the flag no loop iteration begins, a cycle
\* in progress goes on to its end, the monitoring threads leave their loops unless
\* the monitor is started again, the join of stop_monitoring returns, and
\* stop_monitoring on an engine that is not running changes nothing
C9_Stopping ==
    /\ [][ \A t \in 1..Len(threads) :
              (threads[t] = "loop" /\ threads'[t] = "enter") => is_running ]_vars
    /\ [][ \A t \in 1..Len(threads) :
              threads[t] = "cycle" => threads'[t] \in {"cycle", "loop"} ]_vars
    /\ [][ (StopMonitoring /\ ~is_running)
           => UNCHANGED <<storeVars, analyzerVars, threadVars, engineVars, obsVars>> ]_vars
    /\ \A t \in 1..MaxThreads :
          ThreadAt(t, "cycle")
          ~> (ThreadAt(t, "loop") /\ cycle_log.done
              /\ cycle_log.visited = SeqToSet(cycle_log.active))
    /\ (stop_seen /\ ~is_running) ~> (is_running \/ AllExited)
    /\ (stop_pc = "joining") ~> (stop_pc = "idle")

\* stop_monitoring was called during a cycle over two active players; the cycle
\* went to its end, the thread has left its loop and the join has returned
C9_Witness ==
    /\ stop_seen
    /\ ~is_running
    /\ stop_pc = "idle"
    /\ threads # <<>>
    /\ AllExited
    /\ cycle_log.stopped_during
    /\ cycle_log.done
    /\ cycle_log.active = <<P1, P10>>
    /\ cycle_log.visited = {P1, P10}

(***************************************************************************)
(* SpecStreak: failures, wins and neutral actions of one player a few      *)
(* minutes apart, with the two-failures-in-five-minutes condition added    *)
(* to the defaults, under the scheduled checks                             *)
(***************************************************************************)
StreakTick == 3

TwoInFive == Condition(<<"t", "w", "o">>, "consecutive_failures", 2, 5,
                       {"attack_city"}, 0, 1)

NextStreak ==
    \/ /\ Len(action_history) < MaxActions
       /\ \E kind \in {AttackCity, BattleWin, Login} : AddAction(P1, kind, 0)
    \/ ticks < MaxTicks /\ Tick(StreakTick)
    \/ AddTriggerCondition(TwoInFive)
    \/ Len(threads) < MaxThreads /\ StartMonitoring
    \/ \E t \in 1..Len(threads) :
          \/ LoopTest(t)
          \/ CycleBegin(t, FALSE)
          \/ CheckPlayer(t, FALSE, {}, NoName)
          \/ CycleEnd(t)

SpecStreak == Init /\ [][NextStreak]_vars

\* the failures counted from the newest action in the condition's window backwards,
\* up to the first action that is not a failure
WindowStreak(pid, c) ==
    LeadingFailures(SortNewestFirst(
        SelectSeq(WindowActions(pid),
                  LAMBDA a : a.timestamp >= now - c.time_window_minutes)))

\* C11: a consecutive-failures condition with a time window evaluates to true only
\* if the streak recomputed over the window is at least min_failures
C11_StreakMeetsMinimum ==
    \A pid \in DOMAIN players : \A i \in 1..Len(trigger_conditions) :
        ( /\ trigger_conditions[i].trigger_type = "consecutive_failures"
          /\ trigger_conditions[i].time_window_minutes # 0
          /\ Evaluation(pid, trigger_conditions[i]).fires )
        => WindowStreak(pid, trigger_conditions[i]) >= trigger_conditions[i].min_failures

(***************************************************************************)
(* SpecAnalyze: analyze_player_behavior called for registered and unknown  *)
(* ids while actions arrive and a player is registered late                *)
(***************************************************************************)
AnalyzeWindow == 60

InitAnalyze == InitWith([pid \in {P1} |-> Player(3, 0, 0, 0)], <<>>, 0)

NextAnalyze ==
    \/ /\ Len(action_history) < MaxActions
       /\ \E pid \in PlayerIds : AddAction(pid, AttackCity, 0)
    \/ P10 \notin DOMAIN players /\ UpdatePlayer(P10, Player(0, 0, 0, 0))
    \/ ticks < MaxTicks - 1 /\ Tick(ShortTick)
    \/ \E pid \in CallerIds, force \in BOOLEAN :
          AnalyzePlayerBehavior(pid, AnalyzeWindow, force)

SpecAnalyze == InitAnalyze /\ [][NextAnalyze]_vars

\* C12: analyze_player_behavior of an id that is not in the registry returns the
\* error value and leaves the analysis cache, the recent-actions buffer and the
\* risk-score cache as they were; the cache never holds an error value or an entry
\* of an unregistered id, so a call that computes after the registration returns
\* the analysis of the player's actions
C12_UnknownPlayerAnalysis ==
    /\ [][ \A pid \in CallerIds, force \in BOOLEAN :
              AnalyzePlayerBehavior(pid, AnalyzeWindow, force)
              => IF pid \notin DOMAIN players
                 THEN /\ analysis_log'.result = ErrorResult
                      /\ UNCHANGED analyzerVars
                 ELSE (force \/ ~is_cache_valid(
                                    Analyzer(behavior_cache, recent_actions, risk_scores),
                                    now, CacheKey(pid, AnalyzeWindow)))
                      => analysis_log'.result =
                            perform_comprehensive_analysis(
                                players[pid],
                                get_player_actions(action_history, now, pid,
                                                   AnalysisLimit, AnalyzeWindow),
                                now)
         ]_vars
    /\ [](\A key \in DOMAIN behavior_cache :
             /\ behavior_cache[key].data.kind # "error"
             /\ \E pid \in DOMAIN players : key = CacheKey(pid, AnalyzeWindow))

\* an id was analysed while unknown, then registered, and its analysis now is the
\* full analysis of its three actions, held in the cache
C12_Witness ==
    /\ analysis_log.op = "analyze"
    /\ analysis_log.player = P10
    /\ P10 \in analysis_log.rejected
    /\ P10 \in DOMAIN players
    /\ analysis_log.result.kind = "full"
    /\ CacheKey(P10, AnalyzeWindow) \in DOMAIN behavior_cache

(***************************************************************************)
(* agent/smart_game_agent.py: process_trigger_event.  A stage returns      *)
(* [needed/success, error, raised, mails]: raised tells that an exception  *)
(* was raised and caught inside it.                                        *)
(***************************************************************************)
MaxEvents == 2   \* process_trigger_event calls

\* rules 1 to 3; rule 4 looks for action types no ActionType has
rule_based_prescreening(pl) ==
    IF pl.frustration_level > 5
    THEN [needs_deep_analysis |-> TRUE, intervention_suggested |-> TRUE,
          suggested_type |-> "comfort"]
    ELSE IF pl.consecutive_failures >= 3
    THEN [needs_deep_analysis |-> TRUE, intervention_suggested |-> TRUE,
          suggested_type |-> "guidance"]
    ELSE IF pl.vip_level >= 5 /\ pl.total_spent > 1000
    THEN [needs_deep_analysis |-> TRUE, intervention_suggested |-> TRUE,
          suggested_type |-> "proactive_offer"]
    ELSE [needs_deep_analysis |-> FALSE, intervention_suggested |-> FALSE,
          suggested_type |-> "none"]

\* deep: what the language-model stage comes to: "needed" (the decision asks for an
\* intervention), "bot" (a bot was detected) or "raises" (an exception, which the
\* except clause turns into an analysis that asks for nothing)
analyze_and_prepare_intervention(ag, reg, pid, deep) ==
    IF pid \notin DOMAIN reg THEN [needed |-> FALSE, raised |-> FALSE]
    ELSE LET pre == rule_based_prescreening(reg[pid])
         IN  IF ~pre.needs_deep_analysis THEN [needed |-> FALSE, raised |-> FALSE]
             ELSE IF ~ag.llm_client
             THEN [needed |-> pre.intervention_suggested, raised |-> FALSE]
             ELSE [needed |-> deep = "needed", raised |-> deep = "raises"]

process_with_llm_agent(needed, invoke_raises) ==
    IF ~needed THEN [success |-> TRUE, error |-> FALSE, raised |-> FALSE, mails |-> 0]
    ELSE IF invoke_raises
    THEN [success |-> FALSE, error |-> TRUE, raised |-> TRUE, mails |-> 0]
    ELSE [success |-> TRUE, error |-> FALSE, raised |-> FALSE, mails |-> 0]

\* _process_with_rule_engine_v2 and _process_with_rule_engine: the plan is executed
\* by _execute_intervention_plan, which sends the mail and then catches the
\* AttributeError of player.reset_failure_count(); the result says success
process_with_rule_engine(reg, pid, needed) ==
    IF ~needed THEN [success |-> TRUE, error |-> FALSE, raised |-> FALSE, mails |-> 0]
    ELSE IF pid \notin DOMAIN reg
    THEN [success |-> FALSE, error |-> TRUE, raised |-> FALSE, mails |-> 0]
    ELSE [success |-> TRUE, error |-> FALSE, raised |-> TRUE, mails |-> 1]

\* memory_fails: memory_manager.add_interaction raises, which the outer except
\* clause turns into a failed result
process_trigger_event(ag, reg, pid, deep, invoke_raises, memory_fails) ==
    Only({ Only({ IF memory_fails
                  THEN [success |-> FALSE, error |-> TRUE, raised |-> TRUE,
                        mails |-> exe.mails]
                  ELSE [success |-> exe.success, error |-> exe.error,
                        raised |-> ana.raised \/ exe.raised, mails |-> exe.mails]
                  : exe \in {IF ag.agent_executor
                             THEN process_with_llm_agent(ana.needed, invoke_raises)
                             ELSE process_with_rule_engine(reg, pid, ana.needed)} })
           : ana \in {analyze_and_prepare_intervention(ag, reg, pid, deep)} })

\* SmartGameAgent.process_trigger_event
ProcessTriggerEvent(pid, deep, invoke_raises, memory_fails) ==
    /\ \E r \in {process_trigger_event(agent, players, pid, deep, invoke_raises,
                                       memory_fails)} :
          /\ agent' = [agent EXCEPT !.intervention_count = @ + 1,
                                    !.success_count =
                                        IF r.success /\ ~memory_fails THEN @ + 1 ELSE @]
          /\ mail_history' = IF r.mails = 1
                             THEN Append(mail_history, [player_id |-> pid])
                             ELSE mail_history
          /\ mails_sent' = mails_sent + r.mails
          /\ players' = IF r.mails = 1
                        THEN [players EXCEPT ![pid] = intervention_player_update(@)]
                        ELSE players
          /\ agent_log' = [op |-> "process", player |-> pid, success |-> r.success,
                           error |-> r.error, raised |-> r.raised, propagated |-> FALSE]
    /\ call_log' = Stale(call_log)
    /\ UNCHANGED <<now, action_history, trigger_events, analyzerVars, threadVars,
                   engineVars, obsVars, analysis_log, stop_seen, ticks>>

(***************************************************************************)
(* SpecAgent: process_trigger_event on an agent with or without a language *)
(* model, for calm and frustrated players, while actions arrive            *)
(***************************************************************************)
InitAgent ==
    \E cf \in {0, 3}, fl \in {0, 6}, llm \in BOOLEAN, exec \in BOOLEAN :
        /\ exec => llm
        /\ InitWithAgent([pid \in PlayerIds |-> Player(IF pid = P1 THEN 3 ELSE 0, 0,
                                                        IF pid = P1 THEN cf ELSE 0,
                                                        IF pid = P1 THEN fl ELSE 0)],
                         <<>>, 0, NewAgent(llm, exec))

NextAgent ==
    \/ /\ Len(action_history) < MaxActions
       /\ \E kind \in {AttackCity, BattleWin} : AddAction(P1, kind, 0)
    \/ /\ agent.intervention_count < MaxEvents
       /\ \E pid \in {P1, PX}, deep \in {"needed", "bot", "raises"},
             invoke_raises \in BOOLEAN, memory_fails \in BOOLEAN :
             ProcessTriggerEvent(pid, deep, invoke_raises, memory_fails)

SpecAgent == InitAgent /\ [][NextAgent]_vars

\* C13: process_trigger_event does not raise to its caller, and a call in which an
\* exception was raised while analysing or executing returns success = false with
\* an error description
C13_FailuresReported ==
    agent_log.op = "process"
    => /\ ~agent_log.propagated
       /\ agent_log.raised => (~agent_log.success /\ agent_log.error)

(***************************************************************************)
(* The emotional score of analyses computed under SpecRisk, where the      *)
(* action log does not change between the calls                            *)
(***************************************************************************)
\* the sum of the emotional impacts of the actions, oldest first
ImpactSum(actions) ==
    LET s == SortOldestFirst(actions)
    IN  SumSeq([i \in 1..Len(s) |-> get_emotional_impact(s[i])])

\* C14: every impact is in [-5,5]; the current_score of a computed analysis is the
\* sum of the impacts of the window's actions; and an analysis of the list an
\* earlier analysis was made of returns the same score, whatever the caches hold
C14_ScoreIsPure ==
    /\ [](\A t \in ActionTypes :
             get_emotional_impact(PlayerAction(P1, t, None, 0)) \in -5..5)
    /\ [][ \A pid \in CallerIds, window \in {60, 240}, force \in BOOLEAN :
              AnalyzePlayerBehavior(pid, window, force)
              => /\ analysis_log'.result.kind = "full"
                    => analysis_log'.result.current_score =
                          ImpactSum(get_player_actions(action_history, now, pid,
                                                       AnalysisLimit, window))
                 /\ ( /\ analysis_log.op = "analyze"
                      /\ analysis_log.player = pid
                      /\ analysis_log.window = window
                      /\ analysis_log.result.kind = "full" )
                    => analysis_log'.result = analysis_log.result
         ]_vars

\* a full analysis with a score other than 0, returned after earlier calls, one of
\* them for an unknown id, with the cache and the recent-actions buffer filled
C14_Witness ==
    /\ analysis_log.op = "analyze"
    /\ analysis_log.player = P1
    /\ analysis_log.result.kind = "full"
    /\ analysis_log.result.current_score # 0
    /\ PX \in analysis_log.rejected
    /\ CacheKey(P1, 240) \in DOMAIN behavior_cache
    /\ P1 \in DOMAIN recent_actions

(***************************************************************************)
(* triggers/behavior_analyzer.py: clear_cache, and SpecCache: analyses,    *)
(* forced checks and cache clearing while a high-value player fails        *)
(***************************************************************************)
IsPrefix(p, k) == Len(p) <= Len(k) /\ SubSeq(k, 1, Len(p)) = p

Without(f, drop) == [x \in DOMAIN f \ drop |-> f[x]]

\* target = None clears everything; a player id clears the cache keys that start
\* with the id, and the id's buffer and risk score
clear_cache(an, target) ==
    IF target = None THEN Analyzer(EmptyMap, EmptyMap, EmptyMap)
    ELSE Analyzer(Without(an.cache, {k \in DOMAIN an.cache : IsPrefix(target, k)}),
                  Without(an.recent, {target}),
                  Without(an.risk, {target}))

\* BehaviorAnalyzer.clear_cache
ClearCache(target) ==
    /\ \E an \in {clear_cache(Analyzer(behavior_cache, recent_actions, risk_scores),
                              target)} :
          /\ behavior_cache' = an.cache
          /\ recent_actions' = an.recent
          /\ risk_scores' = an.risk
    /\ call_log' = Stale(call_log)
    /\ UNCHANGED <<now, storeVars, threadVars, engineVars, obsVars, analysis_log,
                   agentVars, stop_seen, ticks>>

NextCache ==
    \/ Len(action_history) < MaxActions /\ AddAction(P1, AttackCity, 0)
    \/ ticks < MaxTicks /\ Tick(ShortTick)
    \/ \E pid \in {P1, PX}, force \in BOOLEAN :
          AnalyzePlayerBehavior(pid, AnalyzeWindow, force)
    \/ \E pid \in {P1, PX} : ForceCheckPlayer(pid)
    \/ \E target \in {None, P1, P10} : ClearCache(target)

SpecCache == Init /\ [][NextCache]_vars

\* the evaluation of a condition by an analyzer whose caches were just cleared
EvaluationCleared(pid, c) ==
    evaluate_trigger_condition(
        clear_cache(Analyzer(behavior_cache, recent_actions, risk_scores), None),
        players, action_history, now, pid, players[pid], WindowActions(pid), c)

\* C15: a condition evaluates to the same value with the analyzer's caches as they
\* are and with the caches cleared
C15_CachesNotAuthoritative ==
    \A pid \in DOMAIN players : \A i \in 1..Len(trigger_conditions) :
        Evaluation(pid, trigger_conditions[i]).fires
        = EvaluationCleared(pid, trigger_conditions[i]).fires

\* C16: under SpecStreak, where only add_action changes a player, the player of the
\* newest recorded action has consecutive_failures = 0 when that action is not a
\* failure
C16_NonFailureResets ==
    action_history # <<>>
    => LET a == action_history[Len(action_history)]
       IN  (a.player_id \in DOMAIN players /\ ~is_failure(a))
           => players[a.player_id].consecutive_failures = 0

(***************************************************************************)
(* SpecThreads: any sequence of start_monitoring and stop_monitoring       *)
(* calls, with the join returning whether or not the old thread has ended  *)
(***************************************************************************)
MaxLoops == 2   \* Thread objects created by start_monitoring

NextThreads ==
    \/ /\ Len(action_history) < MaxActions
       /\ \E pid \in PlayerIds : AddAction(pid, AttackCity, 0)
    \/ (is_running \/ Len(threads) < MaxLoops) /\ StartMonitoring
    \/ StopMonitoring
    \/ StopReturn
    \/ \E t \in 1..Len(threads) :
          \/ LoopTest(t)
          \/ CycleBegin(t, FALSE)
          \/ CheckPlayer(t, FALSE, {}, NoName)
          \/ CycleEnd(t)

SpecThreads == Init /\ [][NextThreads]_vars

AliveThreads == {t \in 1..Len(threads) : threads[t] # "exited"}

\* C17: at most one monitoring loop is alive at any time
C17_SingleLoop == Cardinality(AliveThreads) <= 1

\* C18: at most one thread is inside a poll cycle, it is the holder of the lock, and
\* the lock is held only during a cycle; the steps of a cycle are taken by the
\* holder of the lock alone
C18_CyclesDoNotOverlap ==
    /\ [](\A t1, t2 \in 1..Len(threads) :
             (threads[t1] = "cycle" /\ threads[t2] = "cycle") => t1 = t2)
    /\ [](\A t \in 1..Len(threads) : threads[t] = "cycle" <=> lock_owner = t)
    /\ [](lock_owner # 0 => lock_owner \in 1..Len(threads))
    /\ [][ (cycle_todo' # cycle_todo \/ cycle_log' # cycle_log
            \/ trigger_history' # trigger_history \/ trigger_events' # trigger_events)
           => \/ \E t \in 1..Len(threads) : lock_owner = t /\ threads[t] = "cycle"
              \/ \E t \in 1..Len(threads) : lock_owner = 0 /\ lock_owner' = t
              \/ StopMonitoring ]_vars

\* two monitoring loops are alive: one is in the middle of its cycle over two
\* active players, the other has passed its loop test and waits for the lock
C18_Witness ==
    \E t1, t2 \in 1..Len(threads) :
        /\ threads[t1] = "cycle"
        /\ threads[t2] = "enter"
        /\ lock_owner = t1
        /\ cycle_log.visited = {P1}
        /\ cycle_todo = <<P10>>

(***************************************************************************)
(* SpecRefire: the scheduled path over half-hour clock advances, with the  *)
(* default conditions (cooldowns of one hour and more) and a condition     *)
(* without cooldown.  The monitoring thread is a started Thread whose      *)
(* sleeps and cycles are finite, so each of its steps is eventually taken. *)
(***************************************************************************)
MaxFires == 4   \* fires after which no further step of the loop is explored

NoCooldown == Condition(<<"f", "r", "e", "e">>, "consecutive_failures", 1, 20,
                        {"attack_city"}, 0, 0)

RefireStep(t) == triggers_fired < MaxFires /\ ThreadStep(t)

NextRefire ==
    \/ Len(action_history) < MaxActions /\ AddAction(P1, AttackCity, 0)
    \/ ticks < MaxTicks /\ Tick(ShortTick)
    \/ AddTriggerCondition(NoCooldown)
    \/ Len(threads) < MaxThreads /\ StartMonitoring
    \/ \E t \in 1..MaxThreads : RefireStep(t)

FairRefire == \A t \in 1..MaxThreads : WF_vars(RefireStep(t))

SpecRefire == Init /\ [][NextRefire]_vars /\ FairRefire

\* the recorded fires of a pair
RecordedFires(pid, c) ==
    LET key == HistoryKey(pid, c.name)
    IN  IF key \in DOMAIN trigger_history THEN SeqToSet(trigger_history[key]) ELSE {}

\* now is at or after every recorded fire of the pair plus the cooldown
CooldownElapsed(pid, c) ==
    \/ c.cooldown_hours <= 0
    \/ \A t \in RecordedFires(pid, c) : now >= t + c.cooldown_hours * 60

FiredAt(log, pid, c, time) ==
    \E i \in 1..Len(log) :
        /\ log[i].player_id = pid
        /\ log[i].condition = c.name
        /\ log[i].time = time

IsActive(pid) == \E i \in 1..Len(get_active_players(PlayerOrder, action_history, now)) :
                     get_active_players(PlayerOrder, action_history, now)[i] = pid

\* a pair whose cooldown has elapsed since its recorded fires, with the engine
\* running, the player active and the condition holding
Due(pid, c) ==
    /\ is_running
    /\ triggers_fired < MaxFires
    /\ IsActive(pid)
    /\ RecordedFires(pid, c) # {}
    /\ CooldownElapsed(pid, c)
    /\ Evaluation(pid, c).fires

PureConditions ==
    {c \in SeqToSet(trigger_conditions) : c.trigger_type = "consecutive_failures"}

\* C19: the engine's eligibility test of a pair is true exactly when the cooldown
\* has elapsed since the pair's latest recorded fire (always when there is no
\* recorded fire or no cooldown); a poll cycle fires a pair only when its cooldown
\* has elapsed, and fires every pair whose cooldown has elapsed and whose condition
\* holds when it checks the player; and while the engine runs, a pair with a
\* recorded fire whose cooldown has elapsed, whose player is active and whose
\* condition holds fires before the clock moves on
C19_CooldownStateMachine ==
    /\ [](\A pid \in DOMAIN players : \A c \in SeqToSet(trigger_conditions) :
             should_check_condition(trigger_history, now, pid, c)
             <=> CooldownElapsed(pid, c))
    /\ [][ \A i \in (Len(fire_log) + 1)..Len(fire_log') :
              CooldownElapsed(fire_log'[i].player_id,
                              ConditionNamed(fire_log'[i].condition)) ]_vars
    /\ [][ \A t \in 1..Len(threads) :
              (threads[t] = "cycle" /\ cycle_todo # <<>> /\ cycle_todo' # cycle_todo)
              => \A c \in PureConditions :
                    (CooldownElapsed(Head(cycle_todo), c)
                     /\ Evaluation(Head(cycle_todo), c).fires)
                    => /\ FiredAt(fire_log', Head(cycle_todo), c, now)
                       /\ ~FiredAt(fire_log, Head(cycle_todo), c, now)
                          \/ c.cooldown_hours <= 0 ]_vars
    /\ \A n \in 0..(MaxTicks + 1) : \A c \in SeqToSet(DEFAULT_TRIGGERS) :
          (Due(P1, c) /\ ticks = n) ~> (ticks # n \/ FiredAt(fire_log, P1, c, now))

\* the siege condition (cooldown of one hour) has fired for the same player a
\* second time exactly one hour after its first fire, and in the cycle between
\* the two, half an hour after the first, it was held back
C19_Witness ==
    \E i, j \in 1..Len(fire_log) :
        /\ fire_log[i].player_id = P1
        /\ fire_log[j].player_id = P1
        /\ fire_log[i].condition = DEFAULT_TRIGGERS[1].name
        /\ fire_log[j].condition = DEFAULT_TRIGGERS[1].name
        /\ fire_log[i].time = 0
        /\ fire_log[j].time = fire_log[i].time + DEFAULT_TRIGGERS[1].cooldown_hours * 60
        /\ \E k \in 1..Len(action_history) : action_history[k].timestamp = ShortTick

\* the number of times a timestamp occurs in a pair's history
Occurrences(history, key, ts) ==
    IF key \in DOMAIN history
    THEN Cardinality({i \in 1..Len(history[key]) : history[key][i] = ts})
    ELSE 0

CycleCompletes == \E t \in 1..Len(threads) : threads[t] = "cycle" /\ threads'[t] = "loop"

\* C20: under SpecCooldown, when a poll cycle completes the cooldown history holds
\* no timestamp older than 24 hours and no key with an empty list, and every
\* timestamp that was present and not older than 24 hours is still present as
\* often as before
C20_CleanupAfterCycle ==
    [][ CycleCompletes
        => /\ \A k \in DOMAIN trigger_history' :
                 /\ trigger_history'[k] # <<>>
                 /\ \A i \in 1..Len(trigger_history'[k]) :
                       now' - trigger_history'[k][i] <= 24 * 60
           /\ \A k \in DOMAIN trigger_history : \A i \in 1..Len(trigger_history[k]) :
                 now' - trigger_history[k][i] <= 24 * 60
                 => Occurrences(trigger_history', k, trigger_history[k][i])
                    = Occurrences(trigger_history, k, trigger_history[k][i]) ]_vars

\* a cycle 25 hours after the first fires has completed: the pair with the 48-hour
\* cooldown has lost its key, and of the siege pair's two fires only the one of this
\* cycle is left
C20_Witness ==
    /\ now = LongTick
    /\ cycle_log.done
    /\ \E i \in 1..Len(fire_log) :
          fire_log[i].condition = LongCooldown.name /\ fire_log[i].time = 0
    /\ HistoryKey(P1, LongCooldown.name) \notin DOMAIN trigger_history
    /\ HistoryKey(P1, DEFAULT_TRIGGERS[1].name) \in DOMAIN trigger_history
    /\ trigger_history[HistoryKey(P1, DEFAULT_TRIGGERS[1].name)] = <<LongTick>>
    /\ \E i \in 1..Len(fire_log) :
          fire_log[i].condition = DEFAULT_TRIGGERS[1].name /\ fire_log[i].time = 0

(***************************************************************************)
(* SpecPoll: the scheduled path without faults over two players, clock     *)
(* advances of 45 minutes, the emotional-decline condition and a condition *)
(* that asks for no action type and no time window                         *)
(***************************************************************************)
PollTick == 45

AnyFailure == Condition(<<"a", "n", "y">>, "consecutive_failures", 1, 0, {}, 0, 1)

NextPoll ==
    \/ /\ Len(action_history) < MaxActions
       /\ \E pid \in PlayerIds : AddAction(pid, AttackCity, 0)
    \/ ticks < MaxTicks /\ Tick(PollTick)
    \/ \E c \in {Decline, AnyFailure} : AddTriggerCondition(c)
    \/ Len(threads) < MaxThreads /\ StartMonitoring
    \/ \E t \in 1..Len(threads) : ThreadStep(t)

SpecPoll == Init /\ [][NextPoll]_vars

\* the player has an action stamped within the last hour
ActedInLastHour(pid) ==
    \E i \in 1..Len(action_history) :
        /\ action_history[i].player_id = pid
        /\ now - action_history[i].timestamp <= 60

\* the fires and the events a step has added
NewFires  == SubSeq(fire_log', Len(fire_log) + 1, Len(fire_log'))
NewEvents == SubSeq(trigger_events', Len(trigger_events) + 1, Len(trigger_events'))

FiresOf(log, pid, name) ==
    {i \in 1..Len(log) : log[i].player_id = pid /\ log[i].condition = name}

CycleStarts == \E t \in 1..Len(threads) : threads[t] = "enter" /\ threads'[t] = "cycle"

PlayerChecked == cycle_todo # <<>> /\ cycle_todo' = Tail(cycle_todo)

\* C21: a poll cycle sets out to check the registered players that have an action
\* in the last hour at that moment, and by its end has checked exactly those; events
\* are fired only in the check of such a player, for that player; and the check of a
\* player fires one event for each registered condition whose cooldown has elapsed
\* and whose evaluation is true, and none for any other condition
C21_PollChecksActivePlayers ==
    /\ [][ CycleStarts
           => SeqToSet(cycle_todo') = {pid \in DOMAIN players : ActedInLastHour(pid)} ]_vars
    /\ [][ CycleCompletes => cycle_log.visited = SeqToSet(cycle_log.active) ]_vars
    /\ [][ (NewFires # <<>> \/ NewEvents # <<>>)
           => /\ PlayerChecked
              /\ Head(cycle_todo) \in SeqToSet(cycle_log.active)
              /\ Len(NewEvents) = Len(NewFires)
              /\ \A i \in 1..Len(NewFires) :
                    /\ NewFires[i].player_id = Head(cycle_todo)
                    /\ NewEvents[i].player_id = Head(cycle_todo)
                    /\ NewEvents[i].condition = NewFires[i].condition ]_vars
    /\ [][ PlayerChecked
           => \A c \in SeqToSet(trigger_conditions) :
                 /\ Cardinality(FiresOf(NewFires, Head(cycle_todo), c.name)) <= 1
                 /\ FiresOf(NewFires, Head(cycle_todo), c.name) # {}
                    <=> ( /\ CooldownElapsed(Head(cycle_todo), c)
                          /\ Evaluation(Head(cycle_todo), c).fires ) ]_vars

\* a finished cycle found P10 active and P1, whose only action is 90 minutes old,
\* not active: it has fired the condition without action type for P10 and nothing
\* for P1, although P1's streak satisfies the same condition
C21_Witness ==
    /\ cycle_log.done
    /\ cycle_log.active = <<P10>>
    /\ now = 2 * PollTick
    /\ \E i \in 1..Len(action_history) :
          action_history[i].player_id = P1 /\ action_history[i].timestamp = 0
    /\ AnyFailure.name \in ConditionNames(trigger_conditions)
    /\ Evaluation(P1, AnyFailure).fires
    /\ FiresOf(fire_log, P1, AnyFailure.name) = {}
    /\ FiresOf(fire_log, P10, AnyFailure.name) # {}

\* C22: under SpecHandlers every handler invocation found its event as the newest
\* of the persisted trigger events and the time of the fire as the newest entry of
\* the pair's cooldown history, and whenever a step has invoked handlers for an
\* event that event is in the persisted events and the pair's history holds the time
\* of the step
C22_HandlersAfterPersistence ==
    /\ [](\A i \in 1..Len(handler_log) :
             handler_log[i].persisted /\ handler_log[i].recorded)
    /\ [][ \A i \in (Len(handler_log) + 1)..Len(handler_log') :
              /\ \E j \in (Len(trigger_events) + 1)..Len(trigger_events') :
                    trigger_events'[j].event_id = handler_log'[i].event_id
              /\ \E j \in (Len(fire_log) + 1)..Len(fire_log') :
                    /\ fire_log'[j].event_id = handler_log'[i].event_id
                    /\ LET key == HistoryKey(fire_log'[j].player_id,
                                              fire_log'[j].condition)
                       IN  /\ key \in DOMAIN trigger_history'
                           /\ now \in SeqToSet(trigger_history'[key]) ]_vars

\* two handlers were called for the one persisted event, the first of them raised
C22_Witness ==
    /\ Len(handler_log) = 2
    /\ handler_log[1].raised /\ handler_log[1].persisted /\ handler_log[1].recorded
    /\ handler_log[2].persisted /\ handler_log[2].recorded
    /\ Len(trigger_events) = 1
    /\ trigger_events[1].event_id = handler_log[1].event_id

(***************************************************************************)
(* SpecEvents: events created by the scheduled path and by                 *)
(* force_check_player for a player whose action log, written by            *)
(* add_action, holds four to eight actions                                 *)
(***************************************************************************)
EventClock  == 600
ActionGap   == 15
MaxHistory  == 8    \* length of the action log

\* n failed sieges of P1, the newest stamped EventClock, in the order of arrival
SiegeHistory(n) ==
    [i \in 1..n |-> PlayerAction(P1, AttackCity[1], AttackCity[2],
                                 EventClock - ActionGap * (n - i))]

\* the player as the add_action calls of the log have left it
RECURSIVE Replay(_, _)
Replay(pl, hist) ==
    IF hist = <<>> THEN pl
    ELSE Replay(player_after_action(pl, Head(hist)), Tail(hist))

InitEvents ==
    \E n \in {4, 7} :
        InitWith([pid \in {P1} |-> Replay(Player(3, 0, 0, 0), SiegeHistory(n))],
                 SiegeHistory(n), EventClock)

NextEvents ==
    \/ /\ Len(action_history) < MaxHistory
       /\ AddAction(P1, AttackCity, 0)
    \/ ticks < MaxTicks - 1 /\ Tick(ShortTick)
    \/ AddTriggerCondition(AnyFailure)
    \/ \E pid \in {P1, PX} : ForceCheckPlayer(pid)
    \/ Len(threads) < MaxThreads /\ StartMonitoring
    \/ \E t \in 1..Len(threads) : ThreadStep(t)

SpecEvents == InitEvents /\ [][NextEvents]_vars

\* the positions in the action log of the player's actions of the last two hours
WindowIndices(pid) ==
    {i \in 1..Len(action_history) :
        /\ action_history[i].player_id = pid
        /\ now - action_history[i].timestamp <= 120}

NotOlder(actions, ts) == {i \in 1..Len(actions) : actions[i].timestamp >= ts}

\* the event carries the newest, at most five, of the player's actions of the last
\* two hours, and is stamped with the time of the newest of them
CarriesNewest(e) ==
    LET ta == e.triggering_actions
        w  == WindowIndices(e.player_id)
    IN  /\ Len(ta) <= 5
        /\ Len(ta) = Min2(5, Cardinality(w))
        /\ \A i \in 1..Len(ta) : \E j \in w : action_history[j] = ta[i]
        /\ \A j \in w :
              Cardinality(NotOlder(ta, action_history[j].timestamp))
              = Min2(5, Cardinality({k \in w : action_history[k].timestamp
                                               >= action_history[j].timestamp}))
        /\ ta # <<>>
           => /\ \A i \in 1..Len(ta) : ta[i].timestamp <= e.triggered_at
              /\ \E i \in 1..Len(ta) : ta[i].timestamp = e.triggered_at

\* C23: every event a poll cycle persists and every event force_check_player
\* returns carries at most 5 actions, the newest of the player's actions of the
\* last two hours at that moment, and when it carries any its triggered_at is the
\* latest of their timestamps
C23_EventCarriesNewestActions ==
    /\ [][ \A i \in 1..Len(NewEvents) : CarriesNewest(NewEvents[i]) ]_vars
    /\ [][ (\E pid \in CallerIds : ForceCheckPlayer(pid))
           => \A i \in 1..Len(call_log'.events) : CarriesNewest(call_log'.events[i]) ]_vars

\* half an hour after the newest of seven actions a cycle has persisted an event
\* and a force check has returned one: both carry five actions and are stamped with
\* the time of that action, not with the time of the check
C23_Witness ==
    /\ now = EventClock + ShortTick
    /\ Len(action_history) = 7
    /\ call_log.op = "force_check" /\ call_log.fresh
    /\ \E i \in 1..Len(call_log.events) :
          /\ Len(call_log.events[i].triggering_actions) = 5
          /\ call_log.events[i].triggered_at = EventClock
    /\ \E i \in 1..Len(trigger_events) :
          /\ Len(trigger_events[i].triggering_actions) = 5
          /\ trigger_events[i].triggered_at = EventClock
          /\ \E j \in 1..Len(fire_log) :
                fire_log[j].time > EventClock
                /\ fire_log[j].event_id = trigger_events[i].event_id

\* C24: under SpecAnalyze, an analysis of a registered player that finds an entry
\* under its key less than 10 minutes old and is not forced returns the stored
\* result and leaves the cache as it is; any other analysis of a registered player
\* that succeeds or finds an entry under its key leaves under the key the result it
\* returns, stamped with the time of the call
C24_CacheProtocol ==
    [][ \A pid \in DOMAIN players : \A force \in BOOLEAN :
          AnalyzePlayerBehavior(pid, AnalyzeWindow, force)
          => LET key == CacheKey(pid, AnalyzeWindow)
             IN  IF /\ ~force
                    /\ key \in DOMAIN behavior_cache
                    /\ now - behavior_cache[key].timestamp < 10
                 THEN /\ analysis_log'.result = behavior_cache[key].data
                      /\ behavior_cache' = behavior_cache
                 ELSE (key \in DOMAIN behavior_cache
                       \/ analysis_log'.result.kind # "error")
                      => /\ key \in DOMAIN behavior_cache'
                         /\ behavior_cache'[key].timestamp = now
                         /\ behavior_cache'[key].data = analysis_log'.result ]_vars

Reverse(s) == [i \in 1..Len(s) |-> s[Len(s) + 1 - i]]

\* the names of the conditions that evaluate to true when conds are evaluated one
\* after the other for the player, as a check of the player does
TrueConditions(pid, conds) ==
    SeqToSet(force_check_conditions_if_true(
                 [events |-> <<>>, fired_names |-> <<>>,
                  an |-> Analyzer(behavior_cache, recent_actions, risk_scores)],
                 conds,
                 [reg |-> players, hist |-> action_history, clock |-> now, pid |-> pid,
                  pl |-> players[pid], actions |-> WindowActions(pid)]).fired_names)

\* C25: under SpecForce, for every registered player the registered conditions that
\* evaluate to true are the same when they are evaluated in the order of
\* registration and in the opposite order
C25_EvaluationOrderIndependent ==
    \A pid \in DOMAIN players :
        TrueConditions(pid, trigger_conditions)
        = TrueConditions(pid, Reverse(trigger_conditions))

\* the score the player's current state and newest actions give: 10 for each
\* consecutive failure, 3 for each frustration level, 5 for each failure among the
\* five newest actions, clamped to 0..100
CurrentRiskScore(pid) ==
    Min2(100, Max2(0, players[pid].consecutive_failures * 10
                      + players[pid].frustration_level * 3
                      + Cardinality({i \in 1..Len(Take(WindowActions(pid), 5)) :
                                        is_failure(WindowActions(pid)[i])}) * 5))

\* C26: under SpecCooldown, a high-value-risk condition whose player filters the
\* player passes evaluates to true exactly when the player is high-value and the
\* score of the player's current state and newest actions is at least 40
C26_HighValueRiskFires ==
    \A pid \in DOMAIN players : \A c \in SeqToSet(trigger_conditions) :
        (c.trigger_type = "high_value_risk" /\ check_player_filters(players[pid], c))
        => ( Evaluation(pid, c).fires
             <=> (is_high_value(players[pid]) /\ CurrentRiskScore(pid) >= 40) )

(***************************************************************************)
(* SpecSocial: the social-isolation condition over action logs of nine to  *)
(* twelve actions of one player                                            *)
(***************************************************************************)
MaxSocialHistory == 12   \* length of the action log

ChatWorld == <<"chat_world", None>>

Isolation == Condition(<<"i", "s", "o">>, "social_isolation", 0, 120, {}, 0, 1)

\* n logins of P1 followed by s messages in the world chat, all stamped EventClock
SocialHistory(n, s) ==
    Repeat(PlayerAction(P1, Login[1], Login[2], EventClock), n)
    \o Repeat(PlayerAction(P1, ChatWorld[1], ChatWorld[2], EventClock), s)

InitSocial ==
    \E n \in {9, 10}, s \in {0, 1} :
        InitWith([pid \in {P1} |-> Replay(Player(0, 0, 0, 0), SocialHistory(n, s))],
                 SocialHistory(n, s), EventClock)

NextSocial ==
    \/ /\ Len(action_history) < MaxSocialHistory
       /\ \E kind \in {Login, ChatWorld} : AddAction(P1, kind, 0)
    \/ AddTriggerCondition(Isolation)
    \/ Len(threads) < MaxThreads /\ StartMonitoring
    \/ \E t \in 1..Len(threads) : ThreadStep(t)

SpecSocial == InitSocial /\ [][NextSocial]_vars

\* C27: under SpecSocial, a social-isolation condition evaluates to true exactly
\* when the player's window holds at least 10 actions and fewer than 5% of them are
\* social
C27_SocialIsolationFires ==
    \A pid \in DOMAIN players : \A c \in SeqToSet(trigger_conditions) :
        c.trigger_type = "social_isolation"
        => ( Evaluation(pid, c).fires
             <=> /\ Len(WindowActions(pid)) >= 10
                 /\ 100 * Cardinality({i \in 1..Len(WindowActions(pid)) :
                                          is_social_activity(WindowActions(pid)[i])})
                    < 5 * Len(WindowActions(pid)) )

(***************************************************************************)
(* SpecDecline: the emotional-decline condition for a player who complains *)
(* and logs in                                                             *)
(***************************************************************************)
NextDecline ==
    \/ /\ Len(action_history) < MaxActions
       /\ \E kind \in {Complain, Login} : AddAction(P1, kind, 0)
    \/ ticks < MaxTicks - 1 /\ Tick(ShortTick)
    \/ AddTriggerCondition(Decline)
    \/ Len(threads) < MaxThreads /\ StartMonitoring
    \/ \E t \in 1..Len(threads) : ThreadStep(t)

SpecDecline == Init /\ [][NextDecline]_vars

\* what the analyzer reports for the player over the condition's window
Reported(pid, c) ==
    analyze_player_behavior(Analyzer(behavior_cache, recent_actions, risk_scores),
                            players, action_history, now, pid,
                            IF c.time_window_minutes # 0 THEN c.time_window_minutes
                            ELSE 60,
                            FALSE).result

\* C28: under SpecDecline, an emotional-decline condition evaluates to true exactly
\* when the player's window is not empty, the analysis returns no error, and the
\* analyzer reports the state frustrated or declining, or the trajectory declining,
\* or a cumulative score at or below the threshold the condition carries
C28_EmotionalDeclineFires ==
    \A pid \in DOMAIN players : \A c \in SeqToSet(trigger_conditions) :
        c.trigger_type = "emotional_decline"
        => ( Evaluation(pid, c).fires
             <=> /\ WindowActions(pid) # <<>>
                 /\ Reported(pid, c).kind = "full"
                 /\ \/ Reported(pid, c).current_state \in {"frustrated", "declining"}
                    \/ Reported(pid, c).trajectory = "declining"
                    \/ Reported(pid, c).current_score <= c.min_emotional_impact )

(***************************************************************************)
(* SpecRequired: consecutive-failures conditions that name a required      *)
(* action type, one with a five-minute window and one without a window,    *)
(* for a player who attacks a city and loses battles                       *)
(***************************************************************************)
BattleLose == <<"battle_lose", None>>

SiegeAnyTime == Condition(<<"s", "a", "t">>, "consecutive_failures", 1, 0,
                          {"attack_city"}, 0, 1)

NextRequired ==
    \/ /\ Len(action_history) < MaxActions
       /\ \E kind \in {AttackCity, BattleLose} : AddAction(P1, kind, 0)
    \/ ticks < MaxTicks /\ Tick(StreakTick)
    \/ \E c \in {TwoInFive, SiegeAnyTime} : AddTriggerCondition(c)
    \/ Len(threads) < MaxThreads /\ StartMonitoring
    \/ \E t \in 1..Len(threads) : ThreadStep(t)

SpecRequired == Init /\ [][NextRequired]_vars

\* the player's recorded actions of type t no older than the condition's window
RequiredInWindow(pid, c, t) ==
    \E i \in 1..Len(action_history) :
        /\ action_history[i].player_id = pid
        /\ action_history[i].action_type = t
        /\ action_history[i].timestamp >= now - c.time_window_minutes

\* C29: under SpecRequired, a consecutive-failures condition with required action
\* types evaluates to true only if each required type occurs among the player's
\* actions inside the condition's time window
C29_RequiredTypesPresent ==
    \A pid \in DOMAIN players : \A c \in SeqToSet(trigger_conditions) :
        ( /\ c.trigger_type = "consecutive_failures"
          /\ c.required_action_types # {}
          /\ Evaluation(pid, c).fires )
        => \A t \in c.required_action_types : RequiredInWindow(pid, c, t)

\* the level that belongs to a score: low below 30, medium from 30 to below 50,
\* high from 50 to below 70, critical from 70 upwards, over scores in [0,100]
Bucketed(score, level) ==
    /\ score \in 0..100
    /\ level \in {"low", "medium", "high", "critical"}
    /\ level = "low"      <=> score < 30
    /\ level = "medium"   <=> (30 <= score /\ score < 50)
    /\ level = "high"     <=> (50 <= score /\ score < 70)
    /\ level = "critical" <=> score >= 70

\* C30: under SpecRisk, for every player and every non-empty action window the
\* score of the risk assessment is in [0,100] and its level is the bucket of the
\* score, in the assessment itself and in every analysis that returns it
C30_RiskScoreBucketed ==
    /\ ( analysis_log.op = "analyze" /\ analysis_log.result.kind = "full" )
       => Bucketed(analysis_log.result.risk_level, analysis_log.result.risk_label)
    /\ \A pid \in DOMAIN players : \A window \in {60, 240} :
          \A acts \in {get_player_actions(action_history, now, pid,
                                          AnalysisLimit, window)} :
             acts # <<>>
             => \A r \in {assess_risk_level(players[pid], acts,
                                            analyze_emotional_trajectory(acts), now)} :
                   Bucketed(r.risk_score, r.risk_level)

\* an analysis returned for a high-value player with three consecutive failures
\* and frustration 8, all of whose six actions are older than two hours: the points
\* (30 + 40 + 25, times 1.2) exceed 100, the score is 100 and the level critical
C30_Witness ==
    /\ analysis_log.op = "analyze"
    /\ analysis_log.player = P1
    /\ analysis_log.window = 240
    /\ analysis_log.result.kind = "full"
    /\ is_high_value(players[P1])
    /\ players[P1].consecutive_failures = 3
    /\ players[P1].frustration_level = 8
    /\ NoRecentActions(P1)
    /\ Len(get_player_actions(action_history, now, P1, AnalysisLimit, 240)) = 6
    /\ analysis_log.result.risk_level = 100
    /\ analysis_log.result.risk_label = "critical"

(***************************************************************************)
(* SpecInvalid: the default conditions, three of them of a trigger type    *)
(* without a check, with an emotional-decline condition and a condition on *)
(* any failure registered behind them, for a player who attacks and logs   *)
(* in                                                                      *)
(***************************************************************************)
CheckedTypes == {"consecutive_failures", "emotional_decline", "help_seeking",
                 "high_value_risk", "social_isolation"}

NextInvalid ==
    \/ /\ Len(action_history) < MaxActions
       /\ \E kind \in {AttackCity, Login} : AddAction(P1, kind, 0)
    \/ ticks < MaxTicks - 1 /\ Tick(PollTick)
    \/ \E c \in {Decline, AnyFailure} : AddTriggerCondition(c)
    \/ Len(threads) < MaxThreads /\ StartMonitoring
    \/ \E t \in 1..Len(threads) : ThreadStep(t)

SpecInvalid == Init /\ [][NextInvalid]_vars

\* the evaluation of the condition cannot be carried out: its type has no check,
\* or the check raises
NotEvaluable(pid, c) ==
    \/ c.trigger_type \notin CheckedTypes
    \/ Evaluation(pid, c).raised

\* C31: under SpecInvalid, a registered condition whose type has no check or whose
\* check raises evaluates to false; no event of a type without a check is ever
\* persisted by the poll cycles; and the check of a player considers every
\* registered condition and fires every condition on failures that holds and is
\* out of its cooldown, whatever conditions are registered before it
C31_InvalidConditionSkipped ==
    /\ [](\A pid \in DOMAIN players : \A c \in SeqToSet(trigger_conditions) :
             NotEvaluable(pid, c) => ~Evaluation(pid, c).fires)
    /\ [](\A i \in 1..Len(trigger_events) :
             trigger_events[i].trigger_type \in CheckedTypes)
    /\ [][ PlayerChecked
           => \A c \in SeqToSet(trigger_conditions) :
                 /\ <<Head(cycle_todo), c.name>> \in cycle_log'.considered
                 /\ ( /\ c.trigger_type = "consecutive_failures"
                      /\ CooldownElapsed(Head(cycle_todo), c)
                      /\ Evaluation(Head(cycle_todo), c).fires )
                    => FiresOf(NewFires, Head(cycle_todo), c.name) # {} ]_vars

\* a cycle has checked p1 with the emotional-decline condition, whose check raises,
\* and the condition on any failure registered behind the three conditions without
\* a check: those were considered, and the condition on any failure fired
C31_Witness ==
    /\ Len(trigger_conditions) = Len(DEFAULT_TRIGGERS) + 2
    /\ trigger_conditions[Len(trigger_conditions)] = AnyFailure
    /\ Evaluation(P1, Decline).raised
    /\ \A c \in SeqToSet(trigger_conditions) : <<P1, c.name>> \in cycle_log.considered
    /\ FiresOf(fire_log, P1, AnyFailure.name) # {}
    /\ FiresOf(fire_log, P1, Decline.name) = {}

(***************************************************************************)
(* SpecPattern: analyze_player_behavior over action logs of one kind of    *)
(* action followed by another, one action a minute, in a long and a short  *)
(* window                                                                  *)
(***************************************************************************)
RageQuit == <<"rage_quit", None>>

LongRun == 11

\* n1 actions of kind k1 followed by n2 actions of kind k2, the newest one a minute
\* before the clock
TwoPhaseHistory(k1, n1, k2, n2) ==
    [i \in 1..(n1 + n2) |->
        PlayerAction(P1, IF i <= n1 THEN k1[1] ELSE k2[1],
                         IF i <= n1 THEN k1[2] ELSE k2[2],
                         RiskClock - (n1 + n2 - i) - 1)]

PatternHistories ==
    { TwoPhaseHistory(k1, n1, k2, n2) :
        k1 \in {Complain, RageQuit, AttackCity}, n1 \in {0, 3},
        k2 \in {BattleWin, Login, RageQuit}, n2 \in {0, 3, 4, LongRun} }

PatternWindows == {5, 60}

InitPattern ==
    \E hist \in PatternHistories :
        InitWith([pid \in {P1} |-> Player(0, 0, 0, 0)], hist, RiskClock)

NextPattern ==
    \E window \in PatternWindows, force \in BOOLEAN :
        AnalyzePlayerBehavior(P1, window, force)

SpecPattern == InitPattern /\ [][NextPattern]_vars

\* the candidates matched by the analysed window, in the order of their evaluation
AnalysedCandidates ==
    MatchedPatterns(
        get_player_actions(action_history, now, P1, AnalysisLimit, analysis_log.window),
        analyze_emotional_trajectory(
            get_player_actions(action_history, now, P1, AnalysisLimit,
                               analysis_log.window)))

PatternOrder == <<"high_frustration", "seeking_help", "social_isolation", "recovery",
                  "stable", "quit_risk">>

PositionOf(name) == CHOOSE i \in 1..Len(PatternOrder) : PatternOrder[i] = name

\* C32: under SpecPattern, the candidates are matched in the fixed order; the
\* primary pattern of a computed analysis is a matched candidate whose confidence
\* no matched candidate exceeds and no earlier matched candidate equals; without a
\* matched candidate it is 'unknown' with confidence 0
C32_PrimaryPattern ==
    ( analysis_log.op = "analyze" /\ analysis_log.result.kind = "full" )
    => \A m \in {AnalysedCandidates} :
          /\ \A i, j \in 1..Len(m) :
                i < j => PositionOf(m[i][1]) < PositionOf(m[j][1])
          /\ IF m = <<>>
             THEN /\ analysis_log.result.pattern = "unknown"
                  /\ analysis_log.result.pattern_confidence = 0
             ELSE \E i \in 1..Len(m) :
                     /\ m[i] = <<analysis_log.result.pattern,
                                 analysis_log.result.pattern_confidence>>
                     /\ \A j \in 1..Len(m) : m[j][2] <= m[i][2]
                     /\ \A j \in 1..(i - 1) : m[j][2] < m[i][2]

\* an analysis whose window matched two candidates of the same highest confidence,
\* seeking_help and recovery, and reported the one evaluated first
C32_Witness ==
    /\ analysis_log.op = "analyze"
    /\ analysis_log.result.kind = "full"
    /\ AnalysedCandidates = << <<"seeking_help", 7>>, <<"recovery", 7>> >>
    /\ analysis_log.result.pattern = "seeking_help"
    /\ analysis_log.result.pattern_confidence = 7

(***************************************************************************)
(* SpecBuffer: analyses of two players in a 60- and a 240-minute window    *)
(* over action logs shorter and longer than the recent-actions buffer,     *)
(* while actions arrive and the clock advances                             *)
(***************************************************************************)
MaxBufferLog == 24
BufferGap    == 3

\* n logins of p1, one every BufferGap minutes, the newest at the clock
BufferHistory(n) ==
    [i \in 1..n |-> PlayerAction(P1, Login[1], Login[2], RiskClock - BufferGap * (n - i))]

InitBuffer ==
    \E n \in {21, 23} : InitWith(FreshPlayers, BufferHistory(n), RiskClock)

NextBuffer ==
    \/ \E pid \in PlayerIds, window \in {60, 240}, force \in BOOLEAN :
          AnalyzePlayerBehavior(pid, window, force)
    \/ Len(action_history) < MaxBufferLog /\ AddAction(P1, Login, 0)
    \/ ticks < MaxTicks - 1 /\ Tick(ShortTick)

SpecBuffer == InitBuffer /\ [][NextBuffer]_vars

\* the recorded actions of the player inside the window, in the log's order
LoggedInWindow(pid, window) ==
    SelectSeq(action_history,
              LAMBDA a : a.player_id = pid /\ a.timestamp >= now - window)

CopiesIn(s, a) == Cardinality({i \in 1..Len(s) : s[i] = a})

\* buf holds the newest (up to RecentActionsMax) actions of win, newest first
NewestOf(buf, win) ==
    /\ Len(buf) = IF Len(win) < RecentActionsMax THEN Len(win) ELSE RecentActionsMax
    /\ \A i \in 1..(Len(buf) - 1) : buf[i].timestamp >= buf[i + 1].timestamp
    /\ \A a \in SeqToSet(buf) :
          CopiesIn(buf, a) <= CopiesIn(win, a)
    /\ \A a \in SeqToSet(win) :
          (buf # <<>> /\ a.timestamp > buf[Len(buf)].timestamp)
          => CopiesIn(buf, a) = CopiesIn(win, a)

C34_RegisteredPlayerAnalysed ==
    ( /\ analysis_log.op = "analyze"
      /\ analysis_log.player \in DOMAIN players
      /\ analysis_log.player \notin analysis_log.rejected )
    => analysis_log.result.kind # "error"

(***************************************************************************)
(* triggers/trigger_engine.py: enable_condition and disable_condition, and *)
(* SpecDisable: the default siege condition disabled and enabled while the *)
(* monitor polls a player who fails                                        *)
(***************************************************************************)
NoSuchCondition == <<"n", "o">>

\* the assignment to .enabled: TriggerCondition declares no field of that name and
\* nothing allows extra attributes, so the model class refuses the assignment with
\* a ValueError; the dict of conditions is what it was
set_enabled(conds, name, value) == conds

\* call_log.condition is the name the last of the two calls was made for
DisableCondition(name) ==
    /\ trigger_conditions' = set_enabled(trigger_conditions, name, FALSE)
    /\ call_log' = [IdleCallLog EXCEPT !.op = "disable_condition", !.condition = name,
                                       !.fresh = TRUE]
    /\ UNCHANGED <<now, storeVars, analyzerVars, threadVars, event_handlers,
                   trigger_history, triggers_fired, obsVars, analysis_log, agentVars,
                   stop_seen, ticks>>

EnableCondition(name) ==
    /\ trigger_conditions' = set_enabled(trigger_conditions, name, TRUE)
    /\ call_log' = [IdleCallLog EXCEPT !.op = "enable_condition", !.condition = name,
                                       !.fresh = TRUE]
    /\ UNCHANGED <<now, storeVars, analyzerVars, threadVars, event_handlers,
                   trigger_history, triggers_fired, obsVars, analysis_log, agentVars,
                   stop_seen, ticks>>

NextDisable ==
    \/ Len(action_history) < MaxActions /\ AddAction(P1, AttackCity, 0)
    \/ \E name \in {SiegeName, NoSuchCondition} : DisableCondition(name)
    \/ \E name \in {SiegeName, NoSuchCondition} : EnableCondition(name)
    \/ Len(threads) < MaxThreads /\ StartMonitoring
    \/ \E t \in 1..Len(threads) : ThreadStep(t)

SpecDisable == Init /\ [][NextDisable]_vars

\* C35: under SpecDisable, while the last of the calls enable_condition and
\* disable_condition was a disable_condition of a registered condition, no poll
\* cycle fires that condition for any player
C35_DisabledConditionSilent ==
    [][ ( /\ call_log.op = "disable_condition"
          /\ call_log.condition \in ConditionNames(trigger_conditions) )
        => \A pid \in DOMAIN players :
              FiresOf(NewFires, pid, call_log.condition) = {} ]_vars

(***************************************************************************)
(* triggers/trigger_engine.py: clear_trigger_history, and SpecClear: the   *)
(* caches and the cooldown history of p1 and p10 cleared per player while  *)
(* both are analysed and p10 fails and is polled                           *)
(***************************************************************************)
\* None clears everything; a player id removes the keys that start with the id
clear_trigger_history(history, target) ==
    IF target = None THEN EmptyMap
    ELSE Without(history, {k \in DOMAIN history : IsPrefix(target, k)})

ClearTriggerHistory(target) ==
    /\ trigger_history' = clear_trigger_history(trigger_history, target)
    /\ call_log' = Stale(call_log)
    /\ UNCHANGED <<now, storeVars, analyzerVars, threadVars, trigger_conditions,
                   event_handlers, triggers_fired, obsVars, analysis_log, agentVars,
                   stop_seen, ticks>>

\* fires after which the cooldown history is no longer cleared
MaxRefires == 2

NextClear ==
    \/ Len(action_history) < MaxActions - 1 /\ AddAction(P10, AttackCity, 0)
    \/ \E pid \in PlayerIds : AnalyzePlayerBehavior(pid, AnalyzeWindow, FALSE)
    \/ \E target \in {None, P1, P10} : ClearCache(target)
    \/ /\ triggers_fired < MaxRefires
       /\ \E target \in {None, P1, P10} : ClearTriggerHistory(target)
    \/ Len(threads) < MaxThreads /\ StartMonitoring
    \/ \E t \in 1..Len(threads) : ThreadStep(t)

SpecClear == Init /\ [][NextClear]_vars

\* the part of a map that belongs to the player: the given keys
Restricted(f, keys) == [k \in DOMAIN f \cap keys |-> f[k]]

CacheKeysOf(pid) == {CacheKey(pid, AnalyzeWindow)}

HistoryKeysOf(pid) == {HistoryKey(pid, c.name) : c \in SeqToSet(trigger_conditions)}

\* C36: under SpecClear, clear_cache(p) removes p's cache entries, buffer and risk
\* score and clear_trigger_history(p) removes p's cooldown entries, and each leaves
\* the entries of every other player as they were
C36_ClearTouchesOnePlayer ==
    [][ \A p \in PlayerIds :
           /\ ClearCache(p)
              => /\ DOMAIN behavior_cache' \cap CacheKeysOf(p) = {}
                 /\ p \notin DOMAIN recent_actions' \cup DOMAIN risk_scores'
                 /\ \A q \in PlayerIds \ {p} :
                       /\ Restricted(behavior_cache', CacheKeysOf(q))
                          = Restricted(behavior_cache, CacheKeysOf(q))
                       /\ Restricted(recent_actions', {q}) = Restricted(recent_actions, {q})
                       /\ Restricted(risk_scores', {q}) = Restricted(risk_scores, {q})
           /\ ClearTriggerHistory(p)
              => /\ DOMAIN trigger_history' \cap HistoryKeysOf(p) = {}
                 /\ \A q \in PlayerIds \ {p} :
                       Restricted(trigger_history', HistoryKeysOf(q))
                       = Restricted(trigger_history, HistoryKeysOf(q)) ]_vars

\* the number of timestamps recorded for the pair
HistoryLen(history, pid, name) ==
    IF HistoryKey(pid, name) \in DOMAIN history
    THEN Len(history[HistoryKey(pid, name)]) ELSE 0

\* C37: under SpecHandlers (poll cycles with raising handlers and a failing store),
\* triggers_fired equals the number of persisted events; the check of a player
\* persists one event, records one timestamp for the pair and adds one to
\* triggers_fired for each of its fires; it fires a pair at most once, and only
\* pairs of that player; and a cycle checks no player twice
C37_FireBookkeeping ==
    /\ [](triggers_fired = Len(trigger_events))
    /\ [][ PlayerChecked
           => /\ Len(NewEvents) = Len(NewFires)
              /\ \A i \in 1..Len(NewFires) :
                    /\ NewEvents[i].event_id = NewFires[i].event_id
                    /\ NewFires[i].player_id = Head(cycle_todo)
              /\ triggers_fired' = triggers_fired + Len(NewFires)
              /\ \A c \in SeqToSet(trigger_conditions) :
                    /\ Cardinality(FiresOf(NewFires, Head(cycle_todo), c.name)) <= 1
                    /\ HistoryLen(trigger_history', Head(cycle_todo), c.name)
                       = HistoryLen(trigger_history, Head(cycle_todo), c.name)
                         + Cardinality(FiresOf(NewFires, Head(cycle_todo), c.name)) ]_vars
    /\ [][ ~PlayerChecked
           => /\ trigger_events' = trigger_events
              /\ triggers_fired' = triggers_fired ]_vars
    /\ [][ CycleStarts
           => \A i, j \in 1..Len(cycle_todo') :
                 cycle_todo'[i] = cycle_todo'[j] => i = j ]_vars

\* the siege condition has fired twice for p1, an hour apart, with two handlers
\* registered of which one raised: two events, two timestamps, triggers_fired = 2
C37_Witness ==
    /\ triggers_fired = 2
    /\ Len(trigger_events) = 2
    /\ HistoryLen(trigger_history, P1, SiegeName) = 2
    /\ Cardinality(FiresOf(fire_log, P1, SiegeName)) = 2
    /\ Len(event_handlers["consecutive_failures"]) = 2
    /\ \E i \in 1..Len(handler_log) : handler_log[i].raised

\* C38: under SpecPlayer, a call of _execute_intervention_plan that reports the mail
\* as sent has added the mail and has reset the player's consecutive_failures and
\* lowered the frustration_level by 2, not below 0; a call that reports a failure
\* has added no mail and has left the player unchanged
C38_InterventionAllOrNothing ==
    [][ \A pid \in {P1, PX} :
           ExecuteInterventionPlan(pid)
           => IF agent_log'.success
              THEN /\ Len(mail_history') = Len(mail_history) + 1
                   /\ pid \in DOMAIN players
                      => /\ players'[pid].consecutive_failures = 0
                         /\ players'[pid].frustration_level
                            = IF players[pid].frustration_level >= 2
                              THEN players[pid].frustration_level - 2 ELSE 0
              ELSE /\ agent_log'.error
                   /\ mail_history' = mail_history
                   /\ players' = players ]_vars

====
